---- MODULE Spec2Model ----
(***************************************************************************)
(* A model of nbm (NoneBot Manager): the concurrent multi-repository       *)
(* command framework (nbm.py, ConcurrentCommand), the JSON state file      *)
(* (nbm_core/state.py, StateManager), the transaction log                  *)
(* (nbm_core/state.py, TransactionLogger) and the plugin lifecycle         *)
(* (nbm_core/project.py: setup_plugin_repo, add_local_dependency,          *)
(* remove_dependency; nbm.py: SyncCommand.worker), the command executor    *)
(* (nbm_core/process.py, nbm_core/git.py), production packaging            *)
(* (nbm_core/project.py, create_production_package) and repository         *)
(* discovery (nbm.py, CommandBase._get_target_paths), the command line     *)
(* (nbm.py: main, ensure_venv_exists, the init, add, remove, package and   *)
(* commit commands), the settings (nbm_core/config.py), the plugin list    *)
(* file (project.update_plugins_list) and the request recorder             *)
(* (zhenxun/builtin_plugins/record_request.py).                            *)
(*                                                                         *)
(* Each component has its own variables, initial condition, actions and    *)
(* specification; an action of one component leaves the variables of the   *)
(* others unchanged.                                                       *)
(***************************************************************************)
EXTENDS Integers, Sequences, FiniteSets, TLC

(***************************************************************************)
(* Bounds of the model.                                                    *)
(***************************************************************************)
\* Plugin repositories under PLUGINS_SRC_DIR are the paths 1..MaxPlugins;
\* path 0 is PROJECT_ROOT.
MaxPlugins == 2
\* config.MAX_WORKERS (settings.max_workers, any integer > 0; default 8),
\* set below the number of repositories so that the pool's width binds.
MAX_WORKERS == 2
\* Number of StateManager.write calls the writing process makes.
MaxWrites == 2
\* Threads sharing one TransactionLogger, and log calls made by each.
NumThreads == 2
MaxLogCalls == 2
\* Number of consecutive setup_plugin_repo calls made with one URL.
MaxSetupCalls == 2
\* Largest number of workspace members in the root manifest.
MaxMembers == 3

VARIABLES
    \* ---- ConcurrentCommand.execute ----
    target_paths,   \* self.target_paths: the repositories of this run
    rootName,       \* the directory name of PROJECT_ROOT (see Name)
    pc,             \* position of the coordinating thread in execute
    queue,          \* the pool's work queue: submitted, not yet started
    running,        \* paths whose worker is running in a pool thread
    outcome,        \* path -> what its worker did ("none": not finished)
    collected,      \* paths whose future the as_completed loop has handled
    results,        \* the results dict: name -> outcome
    exc,            \* exception propagating out of the with-block
    starts,         \* history: path -> number of times its worker started
    lateStarts,     \* history: paths whose worker started after the interrupt
    heldBack,       \* history: paths queued behind a full pool at the interrupt

    \* ---- StateManager (the state file, its temporary file, the locks) ----
    fsState,        \* inode at self.path (0: the path does not exist)
    fsTmp,          \* inode at temp_path, '<path>.tmp' (0: does not exist)
    inoData,        \* inode -> content of the file
    inoUsed,        \* number of inodes allocated so far
    flock,          \* inode -> holder of the advisory lock on it
    pcW,            \* position of the writer in StateManager.write
    wNew,           \* the state the current write call is writing
    wLockFh,        \* inode of the file handle portalocker.Lock opened
    wExc,           \* exception pending in write
    wCalls,         \* number of write calls begun
    wEnded,         \* history: how the last ended write call ended
    wPrev,          \* history: the content of the state file when write began
    crashedAt,      \* history: where write was when the process crashed
    pcR,            \* position of the reader in StateManager.read
    rFh,            \* inode of the file handle read has opened
    rResult,        \* what read returned
    rHow,           \* history: the path read took to its answer
    rAllowed,       \* history: states persisted or being written during read
    rOverlap,       \* history: the read overlapped a write call
    committed,      \* history: the last state completely persisted

    \* ---- TransactionLogger (one logger, several threads) ----
    logFile,        \* self.log_file: the chunks written, in file order
    logLock,        \* the thread holding self._thread_lock (0: nobody)
    pcL,            \* thread -> its position in TransactionLogger.log
    lCalls,         \* thread -> number of log calls it has begun
    lOk,            \* history: the calls that wrote their record
    lFailed,        \* history: the calls that failed (TypeError, OSError)

    \* ---- setup_plugin_repo (one URL, its fork and its local clone) ----
    sUrlOk,         \* get_repo_name_from_url(url) found 'owner/repo'
    sPc,            \* position of the call in setup_plugin_repo
    sDir,           \* local_path: "absent", "partial" or "cloned"
    sHead,          \* branch checked out in the local clone
    sUpstream,      \* the clone has a remote named 'upstream'
    sForkExists,    \* the fork '<org>/<plugin>' exists on GitHub
    sRemoteDev,     \* the fork has the branch DEV_BRANCH
    sUpDefault,     \* the default branch of the original repository
    sUpHasMain,     \* the original repository has a branch 'main'
    sMainBranch,    \* main_branch: what get_default_branch returned
    sLsSaw,         \* remote_dev_exists: ls-remote printed the dev branch
    sDevBase,       \* what the local dev branch was created from
    sResult,        \* <<status, path given>> of the last call that returned
    sCalls,         \* number of calls begun
    sCmds,          \* history: external commands issued by the current call
    sPrev,          \* history: the status the call before this one returned
    sEnvFails,      \* history: commands of this call that failed on their own
    sRaisedAt,      \* history: the step of this call that raised CommandError
    sSnap,          \* history: the local directory when this call began
    sDevAtStart,    \* history: the fork had the dev branch when the call began

    \* ---- add_local_dependency / AddCommand ----
    aPc,            \* position of the add command ("off": not this run)
    aMeta,          \* <<pyproject.toml exists, setup.py exists>> in the plugin
    aUvAdds,        \* history: number of `uv add` invocations
    aOutcome,       \* how add_local_dependency ended
    aListed,        \* update_plugins_list(action="add") was called

    \* ---- remove_dependency / RemoveCommand ----
    dPc,            \* position of the remove command ("off": not this run)
    dMembers,       \* [tool.uv.workspace].members of the root manifest
    dMembers0,      \* history: the members when the command began
    dNameFrom,      \* where pkg_name_to_remove came from
    dUvRemoves,     \* history: number of `uv remove` invocations
    dUvOut,         \* history: how `uv remove` ended
    dWsTried,       \* history: the workspace step (step 3) was entered
    dWsFailed,      \* history: the workspace step raised
    dWrites,        \* history: number of times the root manifest was written
    dResult,        \* what remove_dependency returned
    dListUpdated,   \* update_plugins_list(action="remove") was called
    dPluginDir,     \* the plugin's directory exists

    \* ---- SyncCommand.worker (one repository) ----
    yPc,            \* position of the worker
    yBranch,        \* the branch checked out ("HEAD": detached)
    yPush,          \* args.push
    yUpDefault,     \* the default branch of upstream
    yUpHasMain,     \* upstream has a branch 'main'
    yUrlParses,     \* get_repo_name_from_url(url of upstream) found a name
    yMainBranch,    \* main_branch
    yRepo,          \* the repository: "clean", "rebasing" or "rebased"
    yLog,           \* history: the commands issued, <<step, outcome>>
    yStatus,        \* the status the worker returned

    \* ---- process.run, git()/gh(), get_default_branch (the last call) ----
    xFn,            \* the function called ("none": no call yet)
    xCheck,         \* its check argument
    xQuiet,         \* its quiet argument
    xOut,           \* how the command ended (see CmdOutcomes)
    xStdout,        \* the stdout captured
    xStderr,        \* the stderr captured
    xJson,          \* what the stdout of the default-branch query holds
    xReported,      \* the branch name in a complete answer of that query
    xResult,        \* what the call returned or raised
    xLogged,        \* what the call logged

    \* ---- project.create_production_package ----
    pPc,            \* where the call is: "start", "write", "compile", "done"
    pBranch,        \* target_branch
    pMembers,       \* [tool.uv.workspace].members of the root pyproject.toml
    pDirs,          \* what each entry of the plugins directory is
    pForm,          \* how the main dependencies are written
    pMain,          \* the main dependencies
    pOpt,           \* the dependencies of the optional group
    pOrder,         \* the order in which iterdir() listed the plugins directory
    pDeps,          \* prod_deps_set
    pFile,          \* requirements.prod.in
    pResult,        \* how the call ended

    \* ---- CommandBase._get_target_paths ----
    tScope,         \* self.scope
    tRootGit,       \* whether PROJECT_ROOT/.git is a directory
    tPluginsDir,    \* whether the plugins directory exists
    tEntries,       \* what each name of the plugins directory is
    tListing,       \* the order in which iterdir() listed the entries
    tPaths,         \* the list returned
    tDone,          \* whether the call has returned

    \* ---- main and the execute methods of the singular commands ----
    cCmd,           \* args.command
    cInstall,       \* args.install (init)
    cPc,            \* where main is: a step name, or "exited"
    cVenv,          \* whether PROJECT_ROOT/.venv is a directory
    cChecked,       \* history: whether ensure_venv_exists has looked for it
    cPaths,         \* init: successful_paths still to be registered
    cTrace,         \* history: the external commands run, in order
    cUnchecked,     \* history: uv ran before ensure_venv_exists had looked
    cFailure,       \* history: the failure the command hit ("none": none)
    cCode,          \* the exit code of the process, once cPc = "exited"

    \* ---- config.load_settings ----
    gFile,          \* manage.toml: <<kind, the [manager] table>>
    gResult,        \* what load_settings returned or raised ("none": not called)

    \* ---- git.get_repo_name_from_url and its use by setup_plugin_repo ----
    uUrl,           \* the URL, as the sequence of its pieces
    uMade,          \* how the URL was put together (host, owner, repo, end)
    uFn,            \* the function called ("none": no call yet)
    uResult,        \* what it returned

    \* ---- InitCommand.execute: setup_plugin_repo in the pool's threads ----
    kPath,          \* worker -> the local path its URL resolves to
    kPc,            \* worker -> where its setup_plugin_repo call is
    kStatus,        \* worker -> the status its call returned ("none": running)
    kDir,           \* path -> "absent", or who made the directory
    kLost,          \* history: workers whose clone another worker's cleanup removed

    \* ---- two concurrent StateManager.write calls on one path ----
    vPc,            \* writer -> where its write call is
    vMain,          \* the inode the state path names
    vTmp,           \* the inode the temporary path names (0: no such file)
    vData,          \* inode -> the content of the file
    vHandle,        \* writer -> the inode its open temporary file is
    vLockFh,        \* writer -> the inode its lock handle is (0: none)
    vLock,          \* inode -> the writer holding its lock (0: free)
    vEnded,         \* writer -> how its call ended ("none": running)
    vDisturbed,     \* history: writers whose temporary file another call changed

    \* ---- the plugin list file (update_plugins_list, add, remove) ----
    mPc,            \* "ready" before the command, "done" after it
    mExists,        \* whether config.PLUGINS_LIST_FILE exists
    mLines,         \* its lines, as read_text().splitlines() gives them
    mExists0,       \* history: mExists before the command
    mLines0,        \* history: mLines before the command
    mCmd,           \* history: the command that ran, with its inputs
    mWrites,        \* history: number of write_text calls

    \* ---- CommitCommand: one message and Change-ID for all repositories ----
    qPc,            \* "start", "running" (workers submitted), "done"
    qMsg,           \* args.message
    qClock,         \* time.time()
    qChangeId,      \* self.change_id (<<>>: not set)
    qIds,           \* history: every Change-ID value computed
    qDirty,         \* repository -> whether it has uncommitted changes
    qW,             \* repository -> where its worker is
    qCmds,          \* repository -> the git commands its worker ran
    qRes,           \* repository -> what its worker returned

    \* ---- record_request: friend requests and group invites ----
    zNow,           \* time.time(), in minutes
    zData,          \* Timer.data: the set of <<key, time>> entries
    zRecords,       \* the FgRequest rows created: [id, key, at, auto]
    zNotices,       \* the ids of the rows the superusers were told about
    zIgnored        \* history: the requests the handlers ignored, <<key, time>>

runnerVars == <<target_paths, rootName, pc, queue, running, outcome,
                collected, results, exc, starts, lateStarts, heldBack>>

stateVars == <<fsState, fsTmp, inoData, inoUsed, flock, pcW, wNew, wLockFh,
               wExc, wCalls, wEnded, wPrev, crashedAt, pcR, rFh, rResult,
               rHow, rAllowed, rOverlap, committed>>

logVars == <<logFile, logLock, pcL, lCalls, lOk, lFailed>>

setupVars == <<sUrlOk, sPc, sDir, sHead, sUpstream, sForkExists, sRemoteDev,
               sUpDefault, sUpHasMain, sMainBranch, sLsSaw, sDevBase, sResult,
               sCalls, sCmds, sPrev, sEnvFails, sRaisedAt, sSnap, sDevAtStart>>

depsVars == <<aPc, aMeta, aUvAdds, aOutcome, aListed, dPc, dMembers,
              dMembers0, dNameFrom, dUvRemoves, dUvOut, dWsTried, dWsFailed,
              dWrites, dResult, dListUpdated, dPluginDir>>

syncVars == <<yPc, yBranch, yPush, yUpDefault, yUpHasMain, yUrlParses,
              yMainBranch, yRepo, yLog, yStatus>>

runVars == <<xFn, xCheck, xQuiet, xOut, xStdout, xStderr, xJson, xReported,
              xResult, xLogged>>

pkgVars == <<pPc, pBranch, pMembers, pDirs, pForm, pMain, pOpt, pOrder,
              pDeps, pFile, pResult>>

discoverVars == <<tScope, tRootGit, tPluginsDir, tEntries, tListing, tPaths,
                   tDone>>

cliVars == <<cCmd, cInstall, cPc, cVenv, cChecked, cPaths, cTrace,
              cUnchecked, cFailure, cCode>>

settingsVars == <<gFile, gResult>>

urlVars == <<uUrl, uMade, uFn, uResult>>

raceVars == <<kPath, kPc, kStatus, kDir, kLost>>

concurrentVars == <<vPc, vMain, vTmp, vData, vHandle, vLockFh, vLock,
                     vEnded, vDisturbed>>

listVars == <<mPc, mExists, mLines, mExists0, mLines0, mCmd, mWrites>>

commitVars == <<qPc, qMsg, qClock, qChangeId, qIds, qDirty, qW, qCmds,
                 qRes>>

requestVars == <<zNow, zData, zRecords, zNotices, zIgnored>>

vars == <<runnerVars, stateVars, logVars, setupVars, depsVars, syncVars,
          runVars, pkgVars, discoverVars, cliVars, settingsVars, urlVars,
          raceVars, concurrentVars, listVars, commitVars, requestVars>>

\* What an action of one component leaves alone.
nonRunnerVars == <<stateVars, logVars, setupVars, depsVars, syncVars,
                    runVars, pkgVars, discoverVars, cliVars, settingsVars,
                    urlVars, raceVars, concurrentVars, listVars, commitVars,
                    requestVars>>

nonStateVars == <<runnerVars, logVars, setupVars, depsVars, syncVars,
                   runVars, pkgVars, discoverVars, cliVars, settingsVars,
                   urlVars, raceVars, concurrentVars, listVars, commitVars,
                   requestVars>>

nonLogVars == <<runnerVars, stateVars, setupVars, depsVars, syncVars,
                 runVars, pkgVars, discoverVars, cliVars, settingsVars,
                 urlVars, raceVars, concurrentVars, listVars, commitVars,
                 requestVars>>

nonSetupVars == <<runnerVars, stateVars, logVars, depsVars, syncVars,
                   runVars, pkgVars, discoverVars, cliVars, settingsVars,
                   urlVars, raceVars, concurrentVars, listVars, commitVars,
                   requestVars>>

nonDepsVars == <<runnerVars, stateVars, logVars, setupVars, syncVars,
                  runVars, pkgVars, discoverVars, cliVars, settingsVars,
                  urlVars, raceVars, concurrentVars, listVars, commitVars,
                  requestVars>>

nonSyncVars == <<runnerVars, stateVars, logVars, setupVars, depsVars,
                  runVars, pkgVars, discoverVars, cliVars, settingsVars,
                  urlVars, raceVars, concurrentVars, listVars, commitVars,
                  requestVars>>

nonRunVars == <<runnerVars, stateVars, logVars, setupVars, depsVars,
                 syncVars, pkgVars, discoverVars, cliVars, settingsVars,
                 urlVars, raceVars, concurrentVars, listVars, commitVars,
                 requestVars>>

nonPkgVars == <<runnerVars, stateVars, logVars, setupVars, depsVars,
                 syncVars, runVars, discoverVars, cliVars, settingsVars,
                 urlVars, raceVars, concurrentVars, listVars, commitVars,
                 requestVars>>

nonDiscoverVars == <<runnerVars, stateVars, logVars, setupVars, depsVars,
                      syncVars, runVars, pkgVars, cliVars, settingsVars,
                      urlVars, raceVars, concurrentVars, listVars,
                      commitVars, requestVars>>

nonCliVars == <<runnerVars, stateVars, logVars, setupVars, depsVars,
                 syncVars, runVars, pkgVars, discoverVars, settingsVars,
                 urlVars, raceVars, concurrentVars, listVars, commitVars,
                 requestVars>>

nonSettingsVars == <<runnerVars, stateVars, logVars, setupVars, depsVars,
                      syncVars, runVars, pkgVars, discoverVars, cliVars,
                      urlVars, raceVars, concurrentVars, listVars,
                      commitVars, requestVars>>

nonUrlVars == <<runnerVars, stateVars, logVars, setupVars, depsVars,
                 syncVars, runVars, pkgVars, discoverVars, cliVars,
                 settingsVars, raceVars, concurrentVars, listVars,
                 commitVars, requestVars>>

nonRaceVars == <<runnerVars, stateVars, logVars, setupVars, depsVars,
                  syncVars, runVars, pkgVars, discoverVars, cliVars,
                  settingsVars, urlVars, concurrentVars, listVars,
                  commitVars, requestVars>>

nonConcurrentVars == <<runnerVars, stateVars, logVars, setupVars, depsVars,
                        syncVars, runVars, pkgVars, discoverVars, cliVars,
                        settingsVars, urlVars, raceVars, listVars,
                        commitVars, requestVars>>

nonListVars == <<runnerVars, stateVars, logVars, setupVars, depsVars,
                  syncVars, runVars, pkgVars, discoverVars, cliVars,
                  settingsVars, urlVars, raceVars, concurrentVars,
                  commitVars, requestVars>>

nonCommitVars == <<runnerVars, stateVars, logVars, setupVars, depsVars,
                    syncVars, runVars, pkgVars, discoverVars, cliVars,
                    settingsVars, urlVars, raceVars, concurrentVars,
                    listVars, requestVars>>

nonRequestVars == <<runnerVars, stateVars, logVars, setupVars, depsVars,
                     syncVars, runVars, pkgVars, discoverVars, cliVars,
                     settingsVars, urlVars, raceVars, concurrentVars,
                     listVars, commitVars>>

(***************************************************************************)
(* ConcurrentCommand.execute (nbm.py)                                      *)
(***************************************************************************)
ROOT == 0

AllPaths == 0..MaxPlugins

\* path.name: plugin directories are siblings, so their names differ; the
\* project root lives elsewhere and may carry the name of a plugin directory.
Name(p) == IF p = ROOT THEN rootName ELSE p

\* What a worker hands to its future: a non-empty dict ({"status": ...}),
\* the empty dict, or an exception.
NonEmptyResults == {"success", "failed", "skipped"}

WorkerOutcomes == NonEmptyResults \cup {"empty", "raised"}

\* `if res := future.result():` -- an empty dict is falsy.
TruthyAlways(o) == TRUE

Truthy(o) == o \in NonEmptyResults

\* `except Exception as exc:` around future.result().
ExecuteCatchesNothing(o) == FALSE

ExecuteCatches(o) == o = "raised"

\* ThreadPoolExecutor(max_workers=config.MAX_WORKERS): a queued work item
\* starts only when fewer than max_workers workers are busy.
PoolUnbounded(busy) == TRUE

PoolHasIdleThread(busy) == Cardinality(busy) < MAX_WORKERS

Submitted == {p \in target_paths : outcome[p] # "none" \/ p \in running
                                   \/ \E i \in 1..Len(queue) : queue[i] = p}

Finished == {p \in target_paths : outcome[p] # "none"}

Min(S) == CHOOSE x \in S : \A y \in S : x <= y

RunnerInit ==
    /\ target_paths \in SUBSET AllPaths
    /\ rootName \in {ROOT, 1}
    /\ pc = "start"
    /\ queue = <<>>
    /\ running = {}
    /\ outcome = [p \in AllPaths |-> "none"]
    /\ collected = {}
    /\ results = <<>>
    /\ exc = "none"
    /\ starts = [p \in AllPaths |-> 0]
    /\ lateStarts = {}
    /\ heldBack = {}

RunnerQuiet ==
    /\ target_paths = {}
    /\ rootName = ROOT
    /\ pc = "start"
    /\ queue = <<>>
    /\ running = {}
    /\ outcome = [p \in AllPaths |-> "none"]
    /\ collected = {}
    /\ results = <<>>
    /\ exc = "none"
    /\ starts = [p \in AllPaths |-> 0]
    /\ lateStarts = {}
    /\ heldBack = {}

\* Lines 88-91: no repository in scope returns {} at once.
Begin ==
    /\ pc = "start"
    /\ pc' = IF target_paths = {} THEN "returned" ELSE "submit"
    /\ UNCHANGED <<target_paths, rootName, queue, running, outcome,
                   collected, results, exc, starts, lateStarts, heldBack>>
    /\ UNCHANGED nonRunnerVars

\* Line 93: executor.submit(self.worker, p) for p in self.target_paths, in
\* list order; after the last one the as_completed loop begins.
Submit ==
    /\ pc = "submit"
    /\ LET p == Min(target_paths \ Submitted) IN
         /\ queue' = Append(queue, p)
         /\ pc' = IF target_paths \ Submitted = {p} THEN "collect" ELSE "submit"
    /\ UNCHANGED <<target_paths, rootName, running, outcome, collected,
                   results, exc, starts, lateStarts, heldBack>>
    /\ UNCHANGED nonRunnerVars

\* A pool thread takes the oldest queued work item and calls self.worker(p).
\* The pool's threads keep draining the queue until the with-block has been
\* left: shutdown(wait=True) cancels nothing.
WorkerStart ==
    /\ pc \in {"submit", "collect", "exit"}
    /\ queue # <<>>
    /\ PoolHasIdleThread(running)
    /\ LET p == Head(queue) IN
         /\ queue' = Tail(queue)
         /\ running' = running \cup {p}
         /\ starts' = [starts EXCEPT ![p] = @ + 1]
         /\ lateStarts' = IF exc = "KeyboardInterrupt"
                          THEN lateStarts \cup {p} ELSE lateStarts
    /\ UNCHANGED <<target_paths, rootName, pc, outcome, collected, results,
                   exc, heldBack>>
    /\ UNCHANGED nonRunnerVars

\* self.worker(p) returns or raises; the future is done.
WorkerFinish(p, o) ==
    /\ p \in running
    /\ running' = running \ {p}
    /\ outcome' = [outcome EXCEPT ![p] = o]
    /\ UNCHANGED <<target_paths, rootName, pc, queue, collected, results,
                   exc, starts, lateStarts, heldBack>>
    /\ UNCHANGED nonRunnerVars

\* Lines 97-107: one iteration of the loop over as_completed(future_map).
Collect(p) ==
    /\ pc = "collect"
    /\ p \in Finished \ collected
    /\ collected' = collected \cup {p}
    /\ IF outcome[p] = "raised"
       THEN IF ExecuteCatches(outcome[p])
            THEN /\ results' = results
                 /\ exc' = exc
                 /\ pc' = IF collected' = target_paths THEN "exit" ELSE "collect"
            ELSE /\ results' = results
                 /\ exc' = "Exception"
                 /\ pc' = "exit"
       ELSE /\ results' = IF Truthy(outcome[p])
                          THEN (Name(p) :> outcome[p]) @@ results
                          ELSE results
            /\ exc' = exc
            /\ pc' = IF collected' = target_paths THEN "exit" ELSE "collect"
    /\ UNCHANGED <<target_paths, rootName, queue, running, outcome, starts,
                   lateStarts, heldBack>>
    /\ UNCHANGED nonRunnerVars

\* KeyboardInterrupt reaches the coordinating thread while it submits or
\* waits in as_completed: it propagates to the end of the with-block.
Interrupt ==
    /\ pc \in {"submit", "collect"}
    /\ exc' = "KeyboardInterrupt"
    /\ pc' = "exit"
    /\ heldBack' = IF Cardinality(running) = MAX_WORKERS
                   THEN {queue[i] : i \in 1..Len(queue)} ELSE {}
    /\ UNCHANGED <<target_paths, rootName, queue, running, outcome,
                   collected, results, starts, lateStarts>>
    /\ UNCHANGED nonRunnerVars

\* ThreadPoolExecutor.__exit__: shutdown(wait=True) joins the pool's threads,
\* which end once the queue is drained; then line 108 returns the results,
\* or the pending exception goes on to main (lines 623-633).
ExitPool ==
    /\ pc = "exit"
    /\ queue = <<>>
    /\ running = {}
    /\ pc' = IF exc = "none" THEN "returned" ELSE "propagated"
    /\ UNCHANGED <<target_paths, rootName, queue, running, outcome,
                   collected, results, exc, starts, lateStarts, heldBack>>
    /\ UNCHANGED nonRunnerVars

RunnerNext ==
    \/ Begin
    \/ Submit
    \/ WorkerStart
    \/ \E p \in AllPaths : \E o \in WorkerOutcomes : WorkerFinish(p, o)
    \/ \E p \in AllPaths : Collect(p)
    \/ Interrupt
    \/ ExitPool

(***************************************************************************)
(* StateManager (nbm_core/state.py)                                        *)
(*                                                                         *)
(* The file system is two paths, self.path and temp_path, each naming an   *)
(* inode or nothing; an open file handle keeps its inode when the path is  *)
(* replaced.  portalocker.Lock(name, mode, timeout=5) opens the file, then *)
(* takes an exclusive non-blocking lock on it, retrying until the timeout  *)
(* (LockException); mode "w" opens for appending, creating the file when   *)
(* it is missing, and truncates it once the lock is held.                  *)
(* One process writes (write calls in sequence), another reads.            *)
(***************************************************************************)
Inodes == 1..(MaxWrites + 3)

\* Contents of a file: the complete JSON text of state k, a proper prefix of
\* it, nothing, text that is no JSON, bytes that are no text.
Json(k) == <<"json", k>>

Partial(k) == <<"partial", k>>

EmptyFile == <<"empty", 0>>

Garbage == <<"garbage", 0>>

BadBytes == <<"badbytes", 0>>

\* What read hands back: a parsed state, or {} (no state).
StateOf(k) == <<"state", k>>

NoState == <<"nostate", 0>>

\* What the file at a path holds (a missing file holds nothing).
Held(ino) == IF ino = 0 THEN EmptyFile ELSE inoData[ino]

\* json.load(f) on a file of this content: the state, or the exception.
JsonLoad(data) ==
    CASE data[1] = "json" -> StateOf(data[2])
      [] data[1] = "badbytes" -> <<"UnicodeDecodeError", 0>>
      [] OTHER -> <<"JSONDecodeError", 0>>

\* Line 28: `json.load(f) if self.path.stat().st_size > 0 else {}`; the size
\* is that of the file now at the path, the text that of the opened handle.
LoadOrEmpty(pathData, fhData) ==
    IF pathData = EmptyFile THEN NoState ELSE JsonLoad(fhData)

\* Lines 29-33: except (LockException, OSError, json.JSONDecodeError).
ReadCatches(e) == e \in {"LockException", "OSError", "JSONDecodeError"}

\* Lines 45: except (portalocker.exceptions.LockException, OSError).
WriteCatches(e) == e \in {"LockException", "OSError"}

\* Line 48: temp_path.unlink(missing_ok=True) leaves no file at temp_path.
KeepTemp(tmp) == tmp

UnlinkTemp(tmp) == 0

WriteActive == pcW \notin {"idle", "crashed"}

ReadActive == pcR \in {"open", "lock", "load"}

\* The state file starts missing, empty, holding state 0, or damaged; a
\* temporary file may be left over from an earlier crash.
StateFiles(s, t) ==
    /\ fsState = IF s = <<"absent", 0>> THEN 0 ELSE 1
    /\ fsTmp = IF t THEN 2 ELSE 0
    /\ inoData = [i \in Inodes |->
                    IF i = 1 /\ s # <<"absent", 0>> THEN s
                    ELSE IF i = 2 /\ t THEN Partial(0) ELSE EmptyFile]
    /\ inoUsed = 2
    /\ flock = [i \in Inodes |-> "none"]
    /\ pcW = "idle"
    /\ wNew = 0
    /\ wLockFh = 0
    /\ wExc = "none"
    /\ wCalls = 0
    /\ wEnded = "none"
    /\ wPrev = EmptyFile
    /\ crashedAt = "none"
    /\ pcR = "idle"
    /\ rFh = 0
    /\ rResult = NoState
    /\ rHow = "none"
    /\ rAllowed = {}
    /\ rOverlap = FALSE
    /\ committed = IF s[1] = "json" THEN StateOf(s[2]) ELSE NoState

StateInit ==
    \E s \in {<<"absent", 0>>, EmptyFile, Json(0), Garbage, BadBytes} :
        \E t \in BOOLEAN : StateFiles(s, t)

StateQuiet == StateFiles(Json(0), FALSE)

\* ---- StateManager.write ----
\* Line 39: a write call begins; the k-th call writes state k.
WriteBegin ==
    /\ pcW = "idle"
    /\ wCalls < MaxWrites
    /\ wCalls' = wCalls + 1
    /\ wNew' = wCalls + 1
    /\ wPrev' = Held(fsState)
    /\ wExc' = "none"
    /\ pcW' = "open_tmp"
    /\ rAllowed' = IF ReadActive THEN rAllowed \cup {StateOf(wCalls + 1)}
                   ELSE rAllowed
    /\ rOverlap' = (rOverlap \/ ReadActive)
    /\ UNCHANGED <<fsState, fsTmp, inoData, inoUsed, flock, wLockFh, wEnded,
                   crashedAt, pcR, rFh, rResult, rHow, committed>>
    /\ UNCHANGED nonStateVars

\* Line 41: temp_path.open("w") creates the temporary file or empties it.
WriteOpenTmp ==
    /\ pcW = "open_tmp"
    /\ IF fsTmp = 0
       THEN /\ fsTmp' = inoUsed + 1
            /\ inoUsed' = inoUsed + 1
            /\ inoData' = [inoData EXCEPT ![inoUsed + 1] = EmptyFile]
       ELSE /\ fsTmp' = fsTmp
            /\ inoUsed' = inoUsed
            /\ inoData' = [inoData EXCEPT ![fsTmp] = EmptyFile]
    /\ pcW' = "dump"
    /\ UNCHANGED <<fsState, flock, wNew, wLockFh, wExc, wCalls, wEnded, wPrev,
                   crashedAt, pcR, rFh, rResult, rHow, rAllowed, rOverlap, committed>>
    /\ UNCHANGED nonStateVars

\* Line 42: json.dump streams the text to the file; a value that is not
\* serializable raises TypeError after part of the text has been written.
WriteDumpPart(serializable) ==
    /\ pcW = "dump"
    /\ inoData' = [inoData EXCEPT ![fsTmp] = Partial(wNew)]
    /\ IF serializable
       THEN pcW' = "dump_rest" /\ wExc' = wExc
       ELSE pcW' = "unlink" /\ wExc' = "TypeError"
    /\ UNCHANGED <<fsState, fsTmp, inoUsed, flock, wNew, wLockFh, wCalls,
                   wEnded, wPrev, crashedAt, pcR, rFh, rResult, rHow, rAllowed,
                   rOverlap, committed>>
    /\ UNCHANGED nonStateVars

\* Lines 41-42: the rest of the text is written and the file closed.
WriteDumpRest ==
    /\ pcW = "dump_rest"
    /\ inoData' = [inoData EXCEPT ![fsTmp] = Json(wNew)]
    /\ pcW' = "lock_open"
    /\ UNCHANGED <<fsState, fsTmp, inoUsed, flock, wNew, wLockFh, wExc, wCalls,
                   wEnded, wPrev, crashedAt, pcR, rFh, rResult, rHow, rAllowed,
                   rOverlap, committed>>
    /\ UNCHANGED nonStateVars

\* Line 43: portalocker.Lock(str(self.path), "w", timeout=5) opens the state
\* file, creating it when it is missing.
WriteLockOpen ==
    /\ pcW = "lock_open"
    /\ IF fsState = 0
       THEN /\ fsState' = inoUsed + 1
            /\ inoUsed' = inoUsed + 1
            /\ inoData' = [inoData EXCEPT ![inoUsed + 1] = EmptyFile]
            /\ wLockFh' = inoUsed + 1
       ELSE /\ fsState' = fsState
            /\ inoUsed' = inoUsed
            /\ inoData' = inoData
            /\ wLockFh' = fsState
    /\ pcW' = "lock_acquire"
    /\ UNCHANGED <<fsTmp, flock, wNew, wExc, wCalls, wEnded, wPrev, crashedAt,
                   pcR, rFh, rResult, rHow, rAllowed, rOverlap, committed>>
    /\ UNCHANGED nonStateVars

\* Line 43: the lock is taken and the state file truncated (mode "w"); or
\* the lock stays held by the reader until the timeout: LockException.
WriteLockAcquire ==
    /\ pcW = "lock_acquire"
    /\ IF flock[wLockFh] = "none"
       THEN /\ flock' = [flock EXCEPT ![wLockFh] = "W"]
            /\ inoData' = [inoData EXCEPT ![wLockFh] = EmptyFile]
            /\ pcW' = "replace"
            /\ wExc' = wExc
       ELSE /\ flock' = flock
            /\ inoData' = inoData
            /\ pcW' = "unlink"
            /\ wExc' = IF WriteCatches("LockException") THEN "caught_lock"
                       ELSE "LockException"
    /\ UNCHANGED <<fsState, fsTmp, inoUsed, wNew, wLockFh, wCalls, wEnded,
                   wPrev, crashedAt, pcR, rFh, rResult, rHow, rAllowed, rOverlap,
                   committed>>
    /\ UNCHANGED nonStateVars

\* Line 44: temp_path.replace(self.path) renames the temporary file over the
\* state file in one step, or fails with OSError and changes nothing.
WriteReplace(ok) ==
    /\ pcW = "replace"
    /\ IF ok
       THEN /\ fsState' = fsTmp
            /\ fsTmp' = 0
            /\ committed' = StateOf(wNew)
            /\ wExc' = wExc
       ELSE /\ fsState' = fsState
            /\ fsTmp' = fsTmp
            /\ committed' = committed
            /\ wExc' = IF WriteCatches("OSError") THEN "caught_os" ELSE "OSError"
    /\ pcW' = "unlock"
    /\ UNCHANGED <<inoData, inoUsed, flock, wNew, wLockFh, wCalls, wEnded,
                   wPrev, crashedAt, pcR, rFh, rResult, rHow, rAllowed, rOverlap>>
    /\ UNCHANGED nonStateVars

\* Line 43: leaving the with-block releases the lock and closes the handle.
WriteUnlock ==
    /\ pcW = "unlock"
    /\ flock' = [flock EXCEPT ![wLockFh] = "none"]
    /\ pcW' = "unlink"
    /\ UNCHANGED <<fsState, fsTmp, inoData, inoUsed, wNew, wLockFh, wExc,
                   wCalls, wEnded, wPrev, crashedAt, pcR, rFh, rResult, rHow,
                   rAllowed, rOverlap, committed>>
    /\ UNCHANGED nonStateVars

\* Lines 47-48: finally: temp_path.unlink(missing_ok=True); the call ends,
\* returning None or raising the exception that was not caught.
WriteUnlink ==
    /\ pcW = "unlink"
    /\ fsTmp' = UnlinkTemp(fsTmp)
    /\ wEnded' = CASE wExc = "none" -> "ok"
                   [] wExc = "caught_lock" -> "lockfail"
                   [] wExc = "caught_os" -> "replacefail"
                   [] OTHER -> "raised"
    /\ wExc' = "none"
    /\ pcW' = "idle"
    /\ UNCHANGED <<fsState, inoData, inoUsed, flock, wNew, wLockFh, wCalls,
                   wPrev, crashedAt, pcR, rFh, rResult, rHow, rAllowed, rOverlap,
                   committed>>
    /\ UNCHANGED nonStateVars

\* The writing process is killed in the middle of a write call: nothing more
\* of the call runs (no except, no finally) and its lock is dropped.
WriteCrash ==
    /\ WriteActive
    /\ crashedAt' = pcW
    /\ pcW' = "crashed"
    /\ flock' = [i \in Inodes |-> IF flock[i] = "W" THEN "none" ELSE flock[i]]
    /\ UNCHANGED <<fsState, fsTmp, inoData, inoUsed, wNew, wLockFh, wExc,
                   wCalls, wEnded, wPrev, pcR, rFh, rResult, rHow, rAllowed,
                   rOverlap, committed>>
    /\ UNCHANGED nonStateVars

\* ---- StateManager.read ----
\* Lines 24-25: a missing state file is the empty state.
ReadBegin ==
    /\ pcR = "idle"
    /\ IF fsState = 0
       THEN pcR' = "returned" /\ rResult' = NoState /\ rHow' = "missing"
       ELSE pcR' = "open" /\ rResult' = rResult /\ rHow' = "none"
    /\ rAllowed' = {committed} \cup
                   (IF WriteActive THEN {StateOf(wNew)} ELSE {})
    /\ rOverlap' = (fsState # 0 /\ WriteActive)
    /\ UNCHANGED <<fsState, fsTmp, inoData, inoUsed, flock, pcW, wNew,
                   wLockFh, wExc, wCalls, wEnded, wPrev, crashedAt, rFh,
                   committed>>
    /\ UNCHANGED nonStateVars

\* Line 27: portalocker.Lock(str(self.path), "r", timeout=5) opens the file
\* now at the path; a file that cannot be opened raises OSError.
ReadOpen(readable) ==
    /\ pcR = "open"
    /\ IF readable
       THEN /\ rFh' = fsState
            /\ pcR' = "lock"
            /\ rResult' = rResult
            /\ rHow' = rHow
       ELSE /\ rFh' = rFh
            /\ pcR' = IF ReadCatches("OSError") THEN "returned" ELSE "raised"
            /\ rResult' = NoState
            /\ rHow' = "unreadable"
    /\ UNCHANGED <<fsState, fsTmp, inoData, inoUsed, flock, pcW, wNew,
                   wLockFh, wExc, wCalls, wEnded, wPrev, crashedAt, rAllowed,
                   rOverlap, committed>>
    /\ UNCHANGED nonStateVars

\* Line 27: the lock on the opened file is taken; or it stays held by the
\* writer until the timeout: LockException.
ReadLock ==
    /\ pcR = "lock"
    /\ IF flock[rFh] = "none"
       THEN /\ flock' = [flock EXCEPT ![rFh] = "R"]
            /\ pcR' = "load"
            /\ rResult' = rResult
            /\ rHow' = rHow
       ELSE /\ flock' = flock
            /\ pcR' = IF ReadCatches("LockException") THEN "returned" ELSE "raised"
            /\ rResult' = NoState
            /\ rHow' = "locktimeout"
    /\ UNCHANGED <<fsState, fsTmp, inoData, inoUsed, pcW, wNew, wLockFh, wExc,
                   wCalls, wEnded, wPrev, crashedAt, rFh, rAllowed, rOverlap,
                   committed>>
    /\ UNCHANGED nonStateVars

\* Lines 28-35: the text is loaded from the opened file, the lock released;
\* an exception of the except clause gives {}, any other leaves read.
ReadLoad ==
    /\ pcR = "load"
    /\ LET got == LoadOrEmpty(Held(fsState), inoData[rFh]) IN
         IF got[1] \in {"state", "nostate"}
         THEN pcR' = "returned" /\ rResult' = got
         ELSE IF ReadCatches(got[1])
              THEN pcR' = "returned" /\ rResult' = NoState
              ELSE pcR' = "raised" /\ rResult' = NoState
    /\ flock' = [flock EXCEPT ![rFh] = "none"]
    /\ rHow' = "loaded"
    /\ UNCHANGED <<fsState, fsTmp, inoData, inoUsed, pcW, wNew, wLockFh, wExc,
                   wCalls, wEnded, wPrev, crashedAt, rFh, rAllowed, rOverlap,
                   committed>>
    /\ UNCHANGED nonStateVars

\* The caller has its answer; the next read call may begin.
ReadEnd ==
    /\ pcR \in {"returned", "raised"}
    /\ pcR' = "idle"
    /\ rFh' = 0
    /\ rResult' = NoState
    /\ rHow' = "none"
    /\ rAllowed' = {}
    /\ rOverlap' = FALSE
    /\ UNCHANGED <<fsState, fsTmp, inoData, inoUsed, flock, pcW, wNew,
                   wLockFh, wExc, wCalls, wEnded, wPrev, crashedAt, committed>>
    /\ UNCHANGED nonStateVars

StateNext ==
    \/ WriteBegin
    \/ WriteOpenTmp
    \/ \E serializable \in BOOLEAN : WriteDumpPart(serializable)
    \/ WriteDumpRest
    \/ WriteLockOpen
    \/ WriteLockAcquire
    \/ \E ok \in BOOLEAN : WriteReplace(ok)
    \/ WriteUnlock
    \/ WriteUnlink
    \/ WriteCrash
    \/ ReadBegin
    \/ \E readable \in BOOLEAN : ReadOpen(readable)
    \/ ReadLock
    \/ ReadLoad
    \/ ReadEnd

(***************************************************************************)
(* TransactionLogger (nbm_core/state.py)                                   *)
(*                                                                         *)
(* The record of the k-th call of thread t reaches the file in two chunks, *)
(* <<t, k, 1>> and <<t, k, 2>> (the second ends with the newline): text    *)
(* longer than the file's buffer is written in several appends.            *)
(***************************************************************************)
Threads == 1..NumThreads

Calls == Threads \X (1..MaxLogCalls)

\* Line 65: `with self._thread_lock` enters only when nobody holds the lock.
LockIgnored(holder) == TRUE

LockFree(holder) == holder = 0

LogInit ==
    /\ logFile = <<>>
    /\ logLock = 0
    /\ pcL = [t \in Threads |-> "idle"]
    /\ lCalls = [t \in Threads |-> 0]
    /\ lOk = {}
    /\ lFailed = {}

\* Line 64: json.dumps(record); a record that is not serializable raises
\* TypeError, which lines 67-68 catch: the call ends without writing.
LogBegin(t, serializable) ==
    /\ pcL[t] = "idle"
    /\ lCalls[t] < MaxLogCalls
    /\ lCalls' = [lCalls EXCEPT ![t] = @ + 1]
    /\ IF serializable
       THEN pcL' = [pcL EXCEPT ![t] = "acquire"] /\ lFailed' = lFailed
       ELSE pcL' = pcL /\ lFailed' = lFailed \cup {<<t, lCalls[t] + 1>>}
    /\ UNCHANGED <<logFile, logLock, lOk>>
    /\ UNCHANGED nonLogVars

\* Line 65: the thread takes self._thread_lock.
LogAcquire(t) ==
    /\ pcL[t] = "acquire"
    /\ LockFree(logLock)
    /\ logLock' = t
    /\ pcL' = [pcL EXCEPT ![t] = "open"]
    /\ UNCHANGED <<logFile, lCalls, lOk, lFailed>>
    /\ UNCHANGED nonLogVars

\* Line 65: self.log_file.open("a"); OSError releases the lock on the way
\* out of the with-statement and is caught by lines 67-68.
LogOpen(t, ok) ==
    /\ pcL[t] = "open"
    /\ IF ok
       THEN /\ pcL' = [pcL EXCEPT ![t] = "write"]
            /\ logLock' = logLock
            /\ lFailed' = lFailed
       ELSE /\ pcL' = [pcL EXCEPT ![t] = "idle"]
            /\ logLock' = 0
            /\ lFailed' = lFailed \cup {<<t, lCalls[t]>>}
    /\ UNCHANGED <<logFile, lCalls, lOk>>
    /\ UNCHANGED nonLogVars

\* Line 66: f.write(line + "\n"): the first chunk is appended.
LogWrite(t) ==
    /\ pcL[t] = "write"
    /\ logFile' = Append(logFile, <<t, lCalls[t], 1>>)
    /\ pcL' = [pcL EXCEPT ![t] = "write_rest"]
    /\ UNCHANGED <<logLock, lCalls, lOk, lFailed>>
    /\ UNCHANGED nonLogVars

\* Lines 65-66: the rest of the line is appended and the file closed.
LogWriteRest(t) ==
    /\ pcL[t] = "write_rest"
    /\ logFile' = Append(logFile, <<t, lCalls[t], 2>>)
    /\ pcL' = [pcL EXCEPT ![t] = "release"]
    /\ UNCHANGED <<logLock, lCalls, lOk, lFailed>>
    /\ UNCHANGED nonLogVars

\* Line 65: the with-statement releases the lock; log returns.
LogRelease(t) ==
    /\ pcL[t] = "release"
    /\ logLock' = 0
    /\ lOk' = lOk \cup {<<t, lCalls[t]>>}
    /\ pcL' = [pcL EXCEPT ![t] = "idle"]
    /\ UNCHANGED <<logFile, lCalls, lFailed>>
    /\ UNCHANGED nonLogVars

LogNext ==
    \/ \E t \in Threads : \E serializable \in BOOLEAN : LogBegin(t, serializable)
    \/ \E t \in Threads : LogAcquire(t)
    \/ \E t \in Threads : \E ok \in BOOLEAN : LogOpen(t, ok)
    \/ \E t \in Threads : LogWrite(t)
    \/ \E t \in Threads : LogWriteRest(t)
    \/ \E t \in Threads : LogRelease(t)

(***************************************************************************)
(* setup_plugin_repo (nbm_core/project.py)                                 *)
(*                                                                         *)
(* One plugin URL, the fork of its repository under the organisation, and  *)
(* the local clone at PLUGINS_SRC_DIR/<plugin>.  process.run raises        *)
(* CommandError for a command that exits non-zero or times out when        *)
(* check=True, and for a missing executable whatever check is; with        *)
(* check=False a failing command returns and git()/gh() hand back "".      *)
(***************************************************************************)
Branches == {"main", "master"}

SetupStatuses == {"success", "exists", "failed"}

\* The local directory as line 90 and line 129 see it.
LocalPathNeverExists(d) == FALSE

LocalPathExists(d) == d # "absent"

\* Lines 129-130: shutil.rmtree(local_path) when the directory exists.
RmtreeSkipped(d) == d

Rmtree(d) == "absent"

\* Line 108: `git remote add upstream` runs with check=False, so its
\* failure raises nothing.
RemoteAddChecked(ok) == ~ok

RemoteAddRaises(ok) == FALSE

\* Line 125: a successful `git push -u origin dev` puts dev on the fork.
PushLeavesRemote(remoteDev) == remoteDev

PushPublishes(remoteDev) == TRUE

\* The original repository has the branch b.
BranchInUpstream(b) == b = sUpDefault \/ (b = "main" /\ sUpHasMain)

\* The part of the world setup_plugin_repo acts on, before the first call.
SetupWorld(urlOk, fork, dev, upDefault, upHasMain) ==
    /\ sUrlOk = urlOk
    /\ sPc = "idle"
    /\ sDir = "absent"
    /\ sHead = "none"
    /\ sUpstream = FALSE
    /\ sForkExists = fork
    /\ sRemoteDev = dev
    /\ sUpDefault = upDefault
    /\ sUpHasMain = upHasMain
    /\ sMainBranch = "none"
    /\ sLsSaw = FALSE
    /\ sDevBase = "none"
    /\ sResult = <<"none", FALSE>>
    /\ sCalls = 0
    /\ sCmds = 0
    /\ sPrev = "none"
    /\ sEnvFails = {}
    /\ sRaisedAt = "none"
    /\ sSnap = <<"absent", "none", FALSE>>
    /\ sDevAtStart = dev

\* Any URL, a fork that exists or not (with or without a dev branch), and
\* an original repository whose default branch is main or master.
SetupInit ==
    \E urlOk \in BOOLEAN, fork \in BOOLEAN, dev \in BOOLEAN,
       upDefault \in Branches, upHasMain \in BOOLEAN :
        /\ dev => fork
        /\ upDefault = "main" => upHasMain
        /\ SetupWorld(urlOk, fork, dev, upDefault, upHasMain)

SetupQuiet == SetupWorld(TRUE, FALSE, FALSE, "main", TRUE)

\* The variables describing GitHub and the URL, which no step changes
\* except fork (sForkExists) and push (sRemoteDev).
sFixed == <<sUrlOk, sUpDefault, sUpHasMain>>

\* `return status, path` (lines 87, 92, 126, 131).
SetupReturn(status, path) ==
    /\ sResult' = <<status, path>>
    /\ sPc' = "idle"

\* CommandError raised at `step`: control goes to the except clause.
SetupRaise(step) ==
    /\ sRaisedAt' = step
    /\ sPc' = "cleanup"

\* Lines 84-94: the URL is parsed and the local path tested; a call on an
\* unparsable URL or an existing directory returns at once.
SetupBegin ==
    /\ sPc = "idle"
    /\ sCalls < MaxSetupCalls
    /\ sCalls' = sCalls + 1
    /\ sPrev' = sResult[1]
    /\ sCmds' = 0
    /\ sEnvFails' = {}
    /\ sRaisedAt' = "none"
    /\ sSnap' = <<sDir, sHead, sUpstream>>
    /\ sDevAtStart' = sRemoteDev
    /\ sLsSaw' = FALSE
    /\ sMainBranch' = "none"
    /\ IF ~sUrlOk THEN SetupReturn("failed", FALSE)
       ELSE IF LocalPathExists(sDir) THEN SetupReturn("exists", TRUE)
       ELSE sPc' = "view" /\ UNCHANGED sResult
    /\ UNCHANGED <<sFixed, sDir, sHead, sUpstream, sForkExists, sRemoteDev,
                   sDevBase>>
    /\ UNCHANGED nonSetupVars

\* Lines 96-98: `gh repo view <fork>` with check=False.  It prints the
\* repository when the fork exists ("found"); it prints nothing when the
\* fork is absent or the command fails ("empty"); a missing gh executable
\* raises CommandError ("noexe").
SetupRepoView(out) ==
    /\ sPc = "view"
    /\ out = "found" => sForkExists
    /\ sCmds' = sCmds + 1
    /\ sEnvFails' = IF out = "noexe" \/ (out = "empty" /\ sForkExists)
                    THEN sEnvFails \cup {"view"} ELSE sEnvFails
    /\ CASE out = "found" -> sPc' = "clone" /\ UNCHANGED sRaisedAt
         [] out = "empty" -> sPc' = "fork" /\ UNCHANGED sRaisedAt
         [] out = "noexe" -> SetupRaise("view")
    /\ UNCHANGED <<sFixed, sDir, sHead, sUpstream, sForkExists, sRemoteDev,
                   sMainBranch, sLsSaw, sDevBase, sResult, sCalls, sPrev,
                   sSnap, sDevAtStart>>
    /\ UNCHANGED nonSetupVars

\* Lines 100-103: `gh repo fork` (check=True).
SetupFork(ok) ==
    /\ sPc = "fork"
    /\ sCmds' = sCmds + 1
    /\ IF ok
       THEN /\ sForkExists' = TRUE
            /\ sPc' = "clone"
            /\ UNCHANGED <<sEnvFails, sRaisedAt>>
       ELSE /\ sEnvFails' = sEnvFails \cup {"fork"}
            /\ SetupRaise("fork")
            /\ UNCHANGED sForkExists
    /\ UNCHANGED <<sFixed, sDir, sHead, sUpstream, sRemoteDev, sMainBranch,
                   sLsSaw, sDevBase, sResult, sCalls, sPrev, sSnap,
                   sDevAtStart>>
    /\ UNCHANGED nonSetupVars

\* Lines 106-107: `git clone <fork> <local_path>` (check=True).  A clone
\* that fails may leave a partly written directory behind.
SetupClone(ok, leftover) ==
    /\ sPc = "clone"
    /\ sCmds' = sCmds + 1
    /\ IF ok
       THEN /\ sDir' = "cloned"
            /\ sHead' = "default"
            /\ sPc' = "remote_add"
            /\ UNCHANGED <<sEnvFails, sRaisedAt>>
       ELSE /\ sDir' = IF leftover THEN "partial" ELSE "absent"
            /\ sEnvFails' = sEnvFails \cup {"clone"}
            /\ SetupRaise("clone")
            /\ UNCHANGED sHead
    /\ UNCHANGED <<sFixed, sUpstream, sForkExists, sRemoteDev, sMainBranch,
                   sLsSaw, sDevBase, sResult, sCalls, sPrev, sSnap,
                   sDevAtStart>>
    /\ UNCHANGED nonSetupVars

\* Line 108: `git remote add upstream <url>` with check=False.
SetupRemoteAdd(ok) ==
    /\ sPc = "remote_add"
    /\ sCmds' = sCmds + 1
    /\ sUpstream' = ok
    /\ sEnvFails' = IF ok THEN sEnvFails ELSE sEnvFails \cup {"remote_add"}
    /\ IF RemoteAddRaises(ok)
       THEN SetupRaise("remote_add")
       ELSE sPc' = "ls_remote" /\ UNCHANGED sRaisedAt
    /\ UNCHANGED <<sFixed, sDir, sHead, sForkExists, sRemoteDev, sMainBranch,
                   sLsSaw, sDevBase, sResult, sCalls, sPrev, sSnap,
                   sDevAtStart>>
    /\ UNCHANGED nonSetupVars

\* Lines 110-116: `git ls-remote --heads origin refs/heads/dev` with
\* check=False prints the ref when the fork has it and the command works,
\* and nothing otherwise.
SetupLsRemote(ok) ==
    /\ sPc = "ls_remote"
    /\ sCmds' = sCmds + 1
    /\ sLsSaw' = (ok /\ sRemoteDev)
    /\ sEnvFails' = IF ok THEN sEnvFails ELSE sEnvFails \cup {"ls_remote"}
    /\ sPc' = IF ok /\ sRemoteDev THEN "checkout" ELSE "default_branch"
    /\ UNCHANGED <<sFixed, sDir, sHead, sUpstream, sForkExists, sRemoteDev,
                   sMainBranch, sDevBase, sResult, sCalls, sPrev, sRaisedAt,
                   sSnap, sDevAtStart>>
    /\ UNCHANGED nonSetupVars

\* Lines 117 and 126: `git checkout dev` (check=True), then success.
SetupCheckout(ok) ==
    /\ sPc = "checkout"
    /\ sCmds' = sCmds + 1
    /\ IF ok
       THEN /\ sHead' = "dev"
            /\ sDevBase' = "origin"
            /\ SetupReturn("success", TRUE)
            /\ UNCHANGED <<sEnvFails, sRaisedAt>>
       ELSE /\ sEnvFails' = sEnvFails \cup {"checkout"}
            /\ SetupRaise("checkout")
            /\ UNCHANGED <<sHead, sDevBase, sResult>>
    /\ UNCHANGED <<sFixed, sDir, sUpstream, sForkExists, sRemoteDev,
                   sMainBranch, sLsSaw, sCalls, sPrev, sSnap, sDevAtStart>>
    /\ UNCHANGED nonSetupVars

\* Line 119: git.get_default_branch(repo_name) asks gh for the default
\* branch of the original repository and answers "main" when that fails.
SetupDefaultBranch(ok) ==
    /\ sPc = "default_branch"
    /\ sCmds' = sCmds + 1
    /\ sMainBranch' = IF ok THEN sUpDefault ELSE "main"
    /\ sEnvFails' = IF ok THEN sEnvFails
                    ELSE sEnvFails \cup {"default_branch"}
    /\ sPc' = "fetch"
    /\ UNCHANGED <<sFixed, sDir, sHead, sUpstream, sForkExists, sRemoteDev,
                   sLsSaw, sDevBase, sResult, sCalls, sPrev, sRaisedAt,
                   sSnap, sDevAtStart>>
    /\ UNCHANGED nonSetupVars

\* Line 120: `git fetch upstream <main_branch>` (check=True) needs the
\* remote 'upstream' and the branch in the original repository.
SetupFetch(ok) ==
    /\ sPc = "fetch"
    /\ sCmds' = sCmds + 1
    /\ sEnvFails' = IF ok THEN sEnvFails ELSE sEnvFails \cup {"fetch"}
    /\ IF ok /\ sUpstream /\ BranchInUpstream(sMainBranch)
       THEN sPc' = "checkout_new" /\ UNCHANGED sRaisedAt
       ELSE SetupRaise("fetch")
    /\ UNCHANGED <<sFixed, sDir, sHead, sUpstream, sForkExists, sRemoteDev,
                   sMainBranch, sLsSaw, sDevBase, sResult, sCalls, sPrev,
                   sSnap, sDevAtStart>>
    /\ UNCHANGED nonSetupVars

\* Lines 121-124: `git checkout -b dev upstream/<main_branch>` (check=True).
SetupCheckoutNew(ok) ==
    /\ sPc = "checkout_new"
    /\ sCmds' = sCmds + 1
    /\ IF ok
       THEN /\ sHead' = "dev"
            /\ sDevBase' = sMainBranch
            /\ sPc' = "push"
            /\ UNCHANGED <<sEnvFails, sRaisedAt>>
       ELSE /\ sEnvFails' = sEnvFails \cup {"checkout_new"}
            /\ SetupRaise("checkout_new")
            /\ UNCHANGED <<sHead, sDevBase>>
    /\ UNCHANGED <<sFixed, sDir, sUpstream, sForkExists, sRemoteDev,
                   sMainBranch, sLsSaw, sResult, sCalls, sPrev, sSnap,
                   sDevAtStart>>
    /\ UNCHANGED nonSetupVars

\* Lines 125-126: `git push -u origin dev` (check=True), then success.
SetupPush(ok) ==
    /\ sPc = "push"
    /\ sCmds' = sCmds + 1
    /\ IF ok
       THEN /\ sRemoteDev' = PushPublishes(sRemoteDev)
            /\ SetupReturn("success", TRUE)
            /\ UNCHANGED <<sEnvFails, sRaisedAt>>
       ELSE /\ sEnvFails' = sEnvFails \cup {"push"}
            /\ SetupRaise("push")
            /\ UNCHANGED <<sRemoteDev, sResult>>
    /\ UNCHANGED <<sFixed, sDir, sHead, sUpstream, sForkExists, sMainBranch,
                   sLsSaw, sDevBase, sCalls, sPrev, sSnap, sDevAtStart>>
    /\ UNCHANGED nonSetupVars

\* Lines 127-131: except CommandError -- the directory is removed when it
\* exists, and the call returns ("failed", None).
SetupCleanup ==
    /\ sPc = "cleanup"
    /\ sDir' = IF LocalPathExists(sDir) THEN Rmtree(sDir) ELSE sDir
    /\ sHead' = IF sDir' = "absent" THEN "none" ELSE sHead
    /\ sUpstream' = IF sDir' = "absent" THEN FALSE ELSE sUpstream
    /\ sDevBase' = IF sDir' = "absent" THEN "none" ELSE sDevBase
    /\ SetupReturn("failed", FALSE)
    /\ UNCHANGED <<sFixed, sForkExists, sRemoteDev, sMainBranch, sLsSaw,
                   sCalls, sCmds, sPrev, sEnvFails, sRaisedAt, sSnap,
                   sDevAtStart>>
    /\ UNCHANGED nonSetupVars

SetupNext ==
    \/ SetupBegin
    \/ \E out \in {"found", "empty", "noexe"} : SetupRepoView(out)
    \/ \E ok \in BOOLEAN : SetupFork(ok)
    \/ \E ok \in BOOLEAN, leftover \in BOOLEAN : SetupClone(ok, leftover)
    \/ \E ok \in BOOLEAN : SetupRemoteAdd(ok)
    \/ \E ok \in BOOLEAN : SetupLsRemote(ok)
    \/ \E ok \in BOOLEAN : SetupCheckout(ok)
    \/ \E ok \in BOOLEAN : SetupDefaultBranch(ok)
    \/ \E ok \in BOOLEAN : SetupFetch(ok)
    \/ \E ok \in BOOLEAN : SetupCheckoutNew(ok)
    \/ \E ok \in BOOLEAN : SetupPush(ok)
    \/ SetupCleanup

(***************************************************************************)
(* add_local_dependency and remove_dependency (nbm_core/project.py), as    *)
(* AddCommand.execute and RemoveCommand.execute (nbm.py) call them.        *)
(*                                                                         *)
(* A workspace member of the root manifest is <<padded, dir, leaf>>: the   *)
(* string '<dir>/<leaf>', with surrounding whitespace when padded.         *)
(***************************************************************************)
PLUGINS_SRC_DIR == "plugins"

\* The plugin the remove command is called for (args.plugin_name).
PluginName == "foo"

MemberValues ==
    { <<FALSE, "plugins", "foo">>, <<TRUE, "plugins", "foo">>,
      <<FALSE, "plugins", "bar">>, <<FALSE, "libs", "foo">> }

MemberLists == UNION {[1..n -> MemberValues] : n \in 0..MaxMembers}

\* Line 146: the directory holds pyproject.toml or setup.py.
PyprojectOnly(pyproject, setup_py) == pyproject

HasPackageMetadata(pyproject, setup_py) == pyproject \/ setup_py

\* Line 196: "not found in dependencies" in str(e).
IsNotFoundNever(out) == FALSE

IsNotFoundAlways(out) == TRUE

IsNotFound(out) == out = "notfound"

\* Line 221: str(member).strip()
StripNothing(m) == m

Strip(m) == <<FALSE, m[2], m[3]>>

\* Line 216: entry_to_remove = f"{settings.plugins_src_dir}/{pkg_name}"
EntryToRemove == <<FALSE, PLUGINS_SRC_DIR, PluginName>>

\* Lines 218-224: the members that are kept, in their order.
NewMembers(ms) == SelectSeq(ms, LAMBDA m : Strip(m) # EntryToRemove)

\* Line 224: some member matched.
Removed(ms) == \E i \in 1..Len(ms) : Strip(ms[i]) = EntryToRemove

DepsState(cmd, ms) ==
    /\ aPc = IF cmd = "add" THEN "idle" ELSE "off"
    /\ aMeta = <<FALSE, FALSE>>
    /\ aUvAdds = 0
    /\ aOutcome = "none"
    /\ aListed = FALSE
    /\ dPc = IF cmd = "remove" THEN "idle" ELSE "off"
    /\ dMembers = ms
    /\ dMembers0 = ms
    /\ dNameFrom = "none"
    /\ dUvRemoves = 0
    /\ dUvOut = "none"
    /\ dWsTried = FALSE
    /\ dWsFailed = FALSE
    /\ dWrites = 0
    /\ dResult = "none"
    /\ dListUpdated = FALSE
    /\ dPluginDir = TRUE

\* One run of `nbm add` (after setup_plugin_repo gave a path) or of
\* `nbm remove foo`, on a root manifest with any list of workspace members.
DepsInit ==
    \E cmd \in {"add", "remove"}, ms \in MemberLists :
        /\ cmd = "add" => ms = <<>>
        /\ DepsState(cmd, ms)

DepsQuiet == DepsState("none", <<>>)

addVars == <<aPc, aMeta, aUvAdds, aOutcome, aListed>>

removeVars == <<dPc, dMembers, dMembers0, dNameFrom, dUvRemoves, dUvOut,
                dWsTried, dWsFailed, dWrites, dResult, dListUpdated,
                dPluginDir>>

\* ---- AddCommand.execute, from line 198 ----
\* project.py lines 143-156: the plugin directory is validated; without
\* package metadata FileNotFoundError is raised.
AddValidate(pyproject, setup_py) ==
    /\ aPc = "idle"
    /\ aMeta' = <<pyproject, setup_py>>
    /\ IF HasPackageMetadata(pyproject, setup_py)
       THEN aPc' = "uv_add" /\ UNCHANGED aOutcome
       ELSE aPc' = "caught" /\ aOutcome' = "FileNotFoundError"
    /\ UNCHANGED <<aUvAdds, aListed, removeVars>>
    /\ UNCHANGED nonDepsVars

\* project.py line 157: `uv add <rel_path> --editable` (check=True).
AddUv(ok) ==
    /\ aPc = "uv_add"
    /\ aUvAdds' = aUvAdds + 1
    /\ aOutcome' = IF ok THEN "ok" ELSE "CommandError"
    /\ aPc' = "caught"
    /\ UNCHANGED <<aMeta, aListed, removeVars>>
    /\ UNCHANGED nonDepsVars

\* nbm.py lines 201-214: both exceptions end the command; otherwise the
\* URL is added to the plugin list.
AddFinish ==
    /\ aPc = "caught"
    /\ aListed' = (aOutcome = "ok")
    /\ aPc' = "done"
    /\ UNCHANGED <<aMeta, aUvAdds, aOutcome, removeVars>>
    /\ UNCHANGED nonDepsVars

\* ---- RemoveCommand.execute ----
\* nbm.py line 221: ensure_venv_exists() creates .venv when it is missing
\* and ends the process with exit code 1 when that fails.
RemoveEnsureVenv(present, created) ==
    /\ dPc = "idle"
    /\ dPc' = IF present \/ created THEN "name" ELSE "exit1"
    /\ UNCHANGED <<dMembers, dMembers0, dNameFrom, dUvRemoves, dUvOut,
                   dWsTried, dWsFailed, dWrites, dResult, dListUpdated,
                   dPluginDir, addVars>>
    /\ UNCHANGED nonDepsVars

\* project.py lines 169-190: the name handed to uv is the one the plugin's
\* pyproject.toml declares, or the folder name when there is no such file,
\* it cannot be parsed, or it declares none.
RemoveResolveName(pyproject) ==
    /\ dPc = "name"
    /\ dNameFrom' = IF pyproject = "named" THEN "declared" ELSE "folder"
    /\ dPluginDir' = (pyproject # "no directory")
    /\ dPc' = "uv_remove"
    /\ UNCHANGED <<dMembers, dMembers0, dUvRemoves, dUvOut, dWsTried,
                   dWsFailed, dWrites, dResult, dListUpdated, addVars>>
    /\ UNCHANGED nonDepsVars

\* project.py lines 193-205: `uv remove <name>` (check=True).  A
\* CommandError saying the package is not among the dependencies is
\* passed over; any other CommandError makes the function return False.
RemoveUv(out) ==
    /\ dPc = "uv_remove"
    /\ dUvRemoves' = dUvRemoves + 1
    /\ dUvOut' = out
    /\ IF out = "ok" \/ IsNotFound(out)
       THEN dPc' = "workspace" /\ UNCHANGED dResult
       ELSE dPc' = "returned" /\ dResult' = "False"
    /\ UNCHANGED <<dMembers, dMembers0, dNameFrom, dWsTried, dWsFailed,
                   dWrites, dListUpdated, dPluginDir, addVars>>
    /\ UNCHANGED nonDepsVars

\* project.py lines 208-240: the root manifest is read and parsed; the
\* members that differ from the entry are kept, and the manifest is
\* written only when a member matched.  Any exception is logged; the
\* function returns True.
RemoveWorkspace(parsable) ==
    /\ dPc = "workspace"
    /\ dWsTried' = TRUE
    /\ dWsFailed' = ~parsable
    /\ IF parsable /\ dMembers # <<>> /\ Removed(dMembers)
       THEN dMembers' = NewMembers(dMembers) /\ dWrites' = dWrites + 1
       ELSE UNCHANGED <<dMembers, dWrites>>
    /\ dResult' = "True"
    /\ dPc' = "returned"
    /\ UNCHANGED <<dMembers0, dNameFrom, dUvRemoves, dUvOut, dListUpdated,
                   dPluginDir, addVars>>
    /\ UNCHANGED nonDepsVars

\* nbm.py lines 224-243: on False the command ends; on True it removes the
\* plugin from the plugin list and, with --force, deletes its directory.
RemoveFinish(force) ==
    /\ dPc = "returned"
    /\ dListUpdated' = (dResult = "True")
    /\ dPluginDir' = IF dResult = "True" /\ force THEN FALSE ELSE dPluginDir
    /\ dPc' = "done"
    /\ UNCHANGED <<dMembers, dMembers0, dNameFrom, dUvRemoves, dUvOut,
                   dWsTried, dWsFailed, dWrites, dResult, addVars>>
    /\ UNCHANGED nonDepsVars

DepsNext ==
    \/ \E pyproject \in BOOLEAN, setup_py \in BOOLEAN :
            AddValidate(pyproject, setup_py)
    \/ \E ok \in BOOLEAN : AddUv(ok)
    \/ AddFinish
    \/ \E present \in BOOLEAN, created \in BOOLEAN :
            RemoveEnsureVenv(present, created)
    \/ \E pyproject \in {"named", "unnamed", "unparsable", "absent",
                         "no directory"} : RemoveResolveName(pyproject)
    \/ \E out \in {"ok", "notfound", "error"} : RemoveUv(out)
    \/ \E parsable \in BOOLEAN : RemoveWorkspace(parsable)
    \/ \E force \in BOOLEAN : RemoveFinish(force)

(***************************************************************************)
(* SyncCommand.worker (nbm.py), for one repository.                        *)
(***************************************************************************)
DEV_BRANCH == "dev"

\* How a command handed to process.run ends: exit code 0, a non-zero exit
\* code, a timeout, or an executable that is not found.
CmdOutcomes == {"ok", "nonzero", "timeout", "noexe"}

\* process.run: CommandError is raised for a missing executable, and for a
\* non-zero exit code or a timeout when check is set.
RaisesOnlyNoExe(out, check) == out = "noexe"

CmdRaises(out, check) == out = "noexe" \/ (check /\ out # "ok")

\* Line 311: current_branch != config.DEV_BRANCH is false.
AnyBranch(b) == TRUE

OnDevBranch(b) == b = DEV_BRANCH

SyncState(branch, push, upDefault, upHasMain, urlParses) ==
    /\ yPc = "idle"
    /\ yBranch = branch
    /\ yPush = push
    /\ yUpDefault = upDefault
    /\ yUpHasMain = upHasMain
    /\ yUrlParses = urlParses
    /\ yMainBranch = "none"
    /\ yRepo = "clean"
    /\ yLog = <<>>
    /\ yStatus = "none"

\* A repository on any branch (or with a detached HEAD), sync with or
\* without --push, an upstream whose default branch is main or master and
\* whose URL names a GitHub repository or not.
SyncInit ==
    \E branch \in {"dev", "main", "HEAD"}, push \in BOOLEAN,
       upDefault \in Branches, upHasMain \in BOOLEAN, urlParses \in BOOLEAN :
        /\ upDefault = "main" => upHasMain
        /\ SyncState(branch, push, upDefault, upHasMain, urlParses)

SyncQuiet == SyncState("dev", FALSE, "main", TRUE, TRUE)

yFixed == <<yBranch, yPush, yUpDefault, yUpHasMain, yUrlParses>>

\* The command `step` is issued and ends with `out`.
SyncIssue(step, out) == yLog' = Append(yLog, <<step, out>>)

\* Lines 342-347: except CommandError -- the error and a hint are logged.
SyncFailReportsSuccess ==
    /\ yStatus' = "success"
    /\ yPc' = "done"

SyncFail ==
    /\ yStatus' = "failed"
    /\ yPc' = "done"

\* Lines 310-315: git rev-parse --abbrev-ref HEAD (check=True); a
\* repository that is not on the dev branch is skipped.
SyncCurrentBranch(out) ==
    /\ yPc = "idle"
    /\ SyncIssue("rev-parse", out)
    /\ IF CmdRaises(out, TRUE) THEN SyncFail
       ELSE IF ~OnDevBranch(yBranch)
            THEN yStatus' = "skipped" /\ yPc' = "done"
            ELSE yPc' = "fetch_upstream" /\ UNCHANGED yStatus
    /\ UNCHANGED <<yFixed, yMainBranch, yRepo>>
    /\ UNCHANGED nonSyncVars

\* Line 318: git fetch upstream --prune (check=True).
SyncFetchUpstream(out) ==
    /\ yPc = "fetch_upstream"
    /\ SyncIssue("fetch upstream", out)
    /\ IF CmdRaises(out, TRUE) THEN SyncFail
       ELSE yPc' = "fetch_origin" /\ UNCHANGED yStatus
    /\ UNCHANGED <<yFixed, yMainBranch, yRepo>>
    /\ UNCHANGED nonSyncVars

\* Line 319: git fetch origin --prune (check=True).
SyncFetchOrigin(out) ==
    /\ yPc = "fetch_origin"
    /\ SyncIssue("fetch origin", out)
    /\ IF CmdRaises(out, TRUE) THEN SyncFail
       ELSE yPc' = "get_url" /\ UNCHANGED yStatus
    /\ UNCHANGED <<yFixed, yMainBranch, yRepo>>
    /\ UNCHANGED nonSyncVars

\* Lines 321-325: git remote get-url upstream (check=True); a URL that
\* names no GitHub repository gives main_branch = "main" without a lookup.
SyncGetUrl(out) ==
    /\ yPc = "get_url"
    /\ SyncIssue("get-url", out)
    /\ IF CmdRaises(out, TRUE)
       THEN SyncFail /\ UNCHANGED yMainBranch
       ELSE /\ UNCHANGED yStatus
            /\ IF yUrlParses
               THEN yPc' = "default_branch" /\ UNCHANGED yMainBranch
               ELSE yPc' = "rebase" /\ yMainBranch' = "main"
    /\ UNCHANGED <<yFixed, yRepo>>
    /\ UNCHANGED nonSyncVars

\* Line 324: git.get_default_branch -- gh repo view --json defaultBranchRef
\* with check=False; every failure, a CommandError included, ends in the
\* answer "main".
SyncDefaultBranch(out) ==
    /\ yPc = "default_branch"
    /\ SyncIssue("default branch", out)
    /\ yMainBranch' = IF out = "ok" THEN yUpDefault ELSE "main"
    /\ yPc' = "rebase"
    /\ UNCHANGED <<yFixed, yRepo, yStatus>>
    /\ UNCHANGED nonSyncVars

\* Lines 330-340: git rebase upstream/<main_branch> (check=True), which
\* needs that branch in upstream.  A rebase that stops (conflict) leaves
\* the repository in the middle of the rebase.
SyncRebase(out, stopped) ==
    /\ yPc = "rebase"
    /\ out = "ok" => (yMainBranch = yUpDefault \/ yUpHasMain)
    /\ SyncIssue("rebase", out)
    /\ IF CmdRaises(out, TRUE)
       THEN /\ SyncFail
            /\ yRepo' = IF stopped /\ out # "noexe" THEN "rebasing" ELSE yRepo
       ELSE /\ yRepo' = "rebased"
            /\ IF yPush THEN yPc' = "push" /\ UNCHANGED yStatus
               ELSE yPc' = "done" /\ yStatus' = "success"
    /\ UNCHANGED <<yFixed, yMainBranch>>
    /\ UNCHANGED nonSyncVars

\* Lines 332-340: with --push, git push --force-with-lease origin dev
\* (check=True), then success.
SyncPush(out) ==
    /\ yPc = "push"
    /\ SyncIssue("push", out)
    /\ IF CmdRaises(out, TRUE) THEN SyncFail
       ELSE yPc' = "done" /\ yStatus' = "success"
    /\ UNCHANGED <<yFixed, yMainBranch, yRepo>>
    /\ UNCHANGED nonSyncVars

SyncNext ==
    \/ \E out \in CmdOutcomes : SyncCurrentBranch(out)
    \/ \E out \in CmdOutcomes : SyncFetchUpstream(out)
    \/ \E out \in CmdOutcomes : SyncFetchOrigin(out)
    \/ \E out \in CmdOutcomes : SyncGetUrl(out)
    \/ \E out \in CmdOutcomes : SyncDefaultBranch(out)
    \/ \E out \in CmdOutcomes, stopped \in BOOLEAN : SyncRebase(out, stopped)
    \/ \E out \in CmdOutcomes : SyncPush(out)

(***************************************************************************)
(* process.run, its wrappers git() and gh() (nbm_core/process.py),         *)
(* git.get_default_branch (nbm_core/git.py) and                            *)
(* CleanupBranchesCommand.worker (nbm.py).                                 *)
(*                                                                         *)
(* A captured text is <<padded, core>>: the characters `core`, with        *)
(* surrounding whitespace when padded; core "" is a text without any       *)
(* non-blank character.                                                    *)
(***************************************************************************)
Texts == BOOLEAN \X {"", "out", "err"}

\* str.strip()
StripText(t) == <<FALSE, t[2]>>

NoText == <<FALSE, "">>

\* What `gh repo view --json defaultBranchRef` can print: nothing, text
\* that is not JSON, a falsy JSON value ({} or null), a JSON value that is
\* not an object, an object without defaultBranchRef, with a null
\* defaultBranchRef, with a defaultBranchRef that has no name, or the
\* complete answer.
JsonKinds == {"empty", "garbage", "falsy", "not object", "no ref",
              "null ref", "no name", "name"}

\* process.py lines 55-57: details = stderr if stderr else stdout, both
\* stripped.
DetailsStdoutFirst(stdout, stderr) ==
    IF StripText(stdout) # NoText THEN StripText(stdout) ELSE StripText(stderr)

Details(stdout, stderr) ==
    IF StripText(stderr) # NoText THEN StripText(stderr) ELSE StripText(stdout)

\* process.py lines 45-51: a timeout raises only `if check`.
TimeoutAlwaysRaises(check) == TRUE

TimeoutRaises(check) == check

\* process.run (lines 29-68): what the call gives back or raises.
Run(out, check, stdout, stderr) ==
    CASE out = "noexe" -> <<"raise", "CommandError", "not found", NoText>>
      [] out = "timeout" ->
            IF TimeoutRaises(check)
            THEN <<"raise", "CommandError", "timed out", NoText>>
            ELSE <<"return", "TimeoutExpired", stdout, stderr>>
      [] out = "nonzero" ->
            IF check
            THEN <<"raise", "CommandError", "exit code",
                   Details(stdout, stderr)>>
            ELSE <<"return", "CompletedProcess", stdout, stderr>>
      [] out = "ok" -> <<"return", "CompletedProcess", stdout, stderr>>

\* process.run, lines 26-27, 49-50 and 63-67: what is logged.
RunLogs(out, check, quiet) ==
    (IF quiet THEN {} ELSE {"debug: running"})
    \cup (IF out = "timeout" /\ ~TimeoutRaises(check) /\ ~quiet
          THEN {"warning: timed out"} ELSE {})
    \cup (IF out = "nonzero" /\ ~check /\ ~quiet
          THEN {"debug: non-zero exit"} ELSE {})

\* git() and gh() (lines 71-102): the stripped stdout of the result, ""
\* when there is none; an exception of run passes through.
Wrapped(result) ==
    IF result[1] = "raise" THEN result
    ELSE <<"return", "str", StripText(result[3])>>

\* git.py lines 42-59: the exception raised inside the try block, if any.
LookupException(gh, json) ==
    IF gh[1] = "raise" THEN "CommandError"
    ELSE IF gh[3] = NoText THEN "none"
    ELSE IF json = "garbage" THEN "JSONDecodeError"
    ELSE IF json \in {"no ref", "no name"} THEN "KeyError"
    ELSE IF json \in {"not object", "null ref"} THEN "TypeError"
    ELSE "none"

\* git.py lines 51 and 56: `except (json.JSONDecodeError, KeyError)` and
\* `except Exception`.
HandledNarrowly(e) == e \in {"JSONDecodeError", "KeyError"}

Handled(e) ==
    \/ e \in {"JSONDecodeError", "KeyError"}
    \/ e \in {"TypeError", "CommandError"}

\* git.get_default_branch: gh is the result of the gh() call, json what
\* its output holds and reported the branch name in a complete answer.
GetDefaultBranch(gh, json, reported) ==
    LET e == LookupException(gh, json) IN
    IF e # "none"
    THEN IF Handled(e) THEN <<"return", "main">> ELSE <<"raise", e>>
    ELSE IF gh[3] # NoText /\ json = "name" THEN <<"return", reported>>
         ELSE <<"return", "main">>

\* The text a JSON answer of kind json is.
JsonText(json) == IF json = "empty" THEN NoText ELSE <<FALSE, "out">>

RunState(fn, check, quiet, out, stdout, stderr, json, reported, result,
         logged) ==
    /\ xFn = fn
    /\ xCheck = check
    /\ xQuiet = quiet
    /\ xOut = out
    /\ xStdout = stdout
    /\ xStderr = stderr
    /\ xJson = json
    /\ xReported = reported
    /\ xResult = result
    /\ xLogged = logged

RunInit ==
    RunState("none", TRUE, FALSE, "ok", NoText, NoText, "empty", "main",
             <<"none">>, {})

RunQuiet == RunInit

\* Each behaviour follows one call, made in the initial state.

\* A command that was not found printed nothing.
Printed(out, stdout, stderr) ==
    out = "noexe" => (stdout = NoText /\ stderr = NoText)

\* process.run (also uv(), which hands its result on unchanged).
RunCall(out, check, quiet, stdout, stderr) ==
    /\ xFn = "none"
    /\ Printed(out, stdout, stderr)
    /\ xFn' = "run"
    /\ xCheck' = check
    /\ xQuiet' = quiet
    /\ xOut' = out
    /\ xStdout' = stdout
    /\ xStderr' = stderr
    /\ xJson' = "empty"
    /\ xReported' = "main"
    /\ xResult' = Run(out, check, stdout, stderr)
    /\ xLogged' = RunLogs(out, check, quiet)
    /\ UNCHANGED nonRunVars

\* process.git / process.gh.
GitCall(out, check, quiet, stdout, stderr) ==
    /\ xFn = "none"
    /\ Printed(out, stdout, stderr)
    /\ xFn' = "git"
    /\ xCheck' = check
    /\ xQuiet' = quiet
    /\ xOut' = out
    /\ xStdout' = stdout
    /\ xStderr' = stderr
    /\ xJson' = "empty"
    /\ xReported' = "main"
    /\ xResult' = Wrapped(Run(out, check, stdout, stderr))
    /\ xLogged' = RunLogs(out, check, quiet)
    /\ UNCHANGED nonRunVars

\* git.get_default_branch.  A gh that failed printed no complete JSON
\* document: nothing, or text that does not parse.
DefaultBranchCall(out, json, reported) ==
    /\ xFn = "none"
    /\ out = "noexe" => json = "empty"
    /\ out \in {"nonzero", "timeout"} => json \in {"empty", "garbage"}
    /\ xFn' = "get_default_branch"
    /\ xCheck' = FALSE
    /\ xQuiet' = TRUE
    /\ xOut' = out
    /\ xStdout' = JsonText(json)
    /\ xStderr' = NoText
    /\ xJson' = json
    /\ xReported' = reported
    /\ xResult' = GetDefaultBranch(
                     Wrapped(Run(out, FALSE, JsonText(json), NoText)),
                     json, reported)
    /\ xLogged' = RunLogs(out, FALSE, TRUE)
    /\ UNCHANGED nonRunVars

\* CleanupBranchesCommand.worker (nbm.py lines 396-419) for a plugin
\* repository: ls-remote with check=False, then push --delete (check=True)
\* when ls-remote printed something.  `out`/`stdout` is how ls-remote ended,
\* `push` how the push ended.
CleanupWorker(out, stdout, push) ==
    /\ xFn = "none"
    /\ Printed(out, stdout, NoText)
    /\ xFn' = "cleanup"
    /\ xCheck' = FALSE
    /\ xQuiet' = TRUE
    /\ xOut' = out
    /\ xStdout' = stdout
    /\ xStderr' = NoText
    /\ xJson' = "empty"
    /\ xReported' = "main"
    /\ xResult' =
         LET ls == Wrapped(Run(out, FALSE, stdout, NoText)) IN
         IF ls[1] = "raise" THEN <<"return", "status", "failed">>
         ELSE IF ls[3] = NoText THEN <<"return", "status", "not_found">>
         ELSE IF Run(push, TRUE, NoText, NoText)[1] = "raise"
              THEN <<"return", "status", "failed">>
              ELSE <<"return", "status", "deleted">>
    /\ xLogged' = RunLogs(out, FALSE, TRUE)
    /\ UNCHANGED nonRunVars

RunNext ==
    \/ \E out \in CmdOutcomes, check \in BOOLEAN, quiet \in BOOLEAN,
          stdout \in Texts, stderr \in Texts :
            RunCall(out, check, quiet, stdout, stderr)
    \/ \E out \in CmdOutcomes, check \in BOOLEAN, quiet \in BOOLEAN,
          stdout \in Texts, stderr \in Texts :
            GitCall(out, check, quiet, stdout, stderr)
    \/ \E out \in CmdOutcomes, json \in JsonKinds, reported \in Branches :
            DefaultBranchCall(out, json, reported)
    \/ \E out \in CmdOutcomes, stdout \in Texts, push \in CmdOutcomes :
            CleanupWorker(out, stdout, push)

(***************************************************************************)
(* project.create_production_package (nbm_core/project.py).                *)
(*                                                                         *)
(* A string is the sequence of its pieces; a piece is one character or a   *)
(* run of characters that the function never takes apart.                  *)
(***************************************************************************)
\* Dependencies in the root manifest, main and optional together.
MaxDeps == 2

\* The plugin repositories the plugins directory may hold.
Repos == {"r1", "r2"}

\* Package names: f-x, f_x and g.
NameHyphen == <<"f", "-", "x">>
NameUnderscore == <<"f", "_", "x">>
NameOther == <<"g">>

\* The return value None of _get_package_name_from_plugin_dir and of
\* process_dependency; an empty string counts the same in both places.
NoString == <<>>

\* An entry of the plugins directory: a directory whose pyproject.toml
\* declares a package name, a directory without a readable name, or a file.
DirKinds == {<<"dir", NameHyphen>>, <<"dir", NameUnderscore>>,
             <<"dir", NoString>>, <<"file", NoString>>}

\* _get_package_name_from_plugin_dir
PackageName(d) == d[2]

\* [tool.uv.workspace].members
MemberPatterns == {<<>>, <<"libs/*">>, <<"plugins/*">>}

\* member_pattern.startswith(config.settings.plugins_src_dir)
StartsWithPluginsDir(pattern) == pattern \in {"plugins/*", "plugins/foo"}

\* The position of a piece in the order of Python's string comparison: the
\* code point of its first character and, for the pieces that start with
\* the same character, that of the first character in which they differ.
Ord(c) ==
    CASE c = " @ file://" -> 1
      [] c = " @ git+https://github.com/org/" -> 2
      [] c = " " -> 3
      [] c = "'}" -> 4
      [] c = "," -> 5
      [] c = "-" -> 6
      [] c = ".git@" -> 7
      [] c = "/p" -> 8
      [] c = "@file://" -> 9
      [] c = "^1" -> 10
      [] c = "_" -> 11
      [] c = "dev" -> 12
      [] c = "f" -> 13
      [] c = "g" -> 14
      [] c = "main" -> 15
      [] c = "r1" -> 16
      [] c = "r2" -> 17
      [] c = "u" -> 18
      [] c = "v" -> 19
      [] c = "x" -> 20
      [] c = "{'path': '" -> 21

\* a < b for two strings
RECURSIVE Less(_, _)
Less(a, b) ==
    IF b = <<>> THEN FALSE
    ELSE IF a = <<>> THEN TRUE
    ELSE IF Head(a) # Head(b) THEN Ord(Head(a)) < Ord(Head(b))
    ELSE Less(Tail(a), Tail(b))

\* sorted(list(prod_deps_set))
Sorted(S) ==
    CHOOSE s \in [1..Cardinality(S) -> S] :
        \A i, j \in 1..Cardinality(S) : i < j => Less(s[i], s[j])

\* name.replace("_", "-")
Normalize(name) == [i \in DOMAIN name |-> IF name[i] = "_" THEN "-" ELSE name[i]]

RECURSIVE LStrip(_)
LStrip(s) == IF s # <<>> /\ Head(s) = " " THEN LStrip(Tail(s)) ELSE s

RECURSIVE RStrip(_, _)
RStrip(s, c) ==
    IF s # <<>> /\ s[Len(s)] = c THEN RStrip(SubSeq(s, 1, Len(s) - 1), c) ELSE s

\* str.strip()
StripStr(s) == RStrip(LStrip(s), " ")

\* dep_str.strip().rstrip(",")
CleanedStripOnly(s) == StripStr(s)

Cleaned(s) == RStrip(StripStr(s), ",")

\* The pieces that begin with " @ ".
AtPieces == {" @ file://", " @ git+https://github.com/org/"}

\* s.split(" @ ")[0]
RECURSIVE BeforeAt(_)
BeforeAt(s) ==
    IF s = <<>> \/ Head(s) \in AtPieces THEN <<>>
    ELSE <<Head(s)>> \o BeforeAt(Tail(s))

\* " @ file://" in dep_str
HasFileUrl(s) == \E i \in DOMAIN s : s[i] = " @ file://"

\* str() of a table that holds path = "/p".
PathText == <<"{'path': '", "/p", "'}">>

\* What a dependency array can hold: requirement strings, some with
\* surrounding blanks or a trailing comma, and references to local files.
PlainTexts == {<<"u">>, <<" ", "v", " ">>, <<"u", ",">>, <<",">>}

FileRefs == {NameUnderscore \o <<" @ file://", "/p">>,
             NameOther \o <<" @ file://", "/p">>}

UnspacedFileRef == NameUnderscore \o <<"@file://", "/p">>

ArrayItems ==
    {[kind |-> "String", text |-> t] :
        t \in PlainTexts \cup FileRefs \cup {UnspacedFileRef}}

\* What a dependency table can hold: a key with a sub-table
\* ([...dependencies.f_x] path = "/p"), with an inline table
\* (f_x = { path = "/p" }) or with a version string.
TableEntries ==
    {[key |-> NameUnderscore, kind |-> "Table", text |-> PathText],
     [key |-> NameUnderscore, kind |-> "InlineTable", text |-> PathText],
     [key |-> NameOther, kind |-> "Table", text |-> PathText],
     [key |-> <<"u">>, kind |-> "String", text |-> <<"^1">>]}

SeqsUpTo(S, n) == UNION {[1..k -> S] : k \in 0..n}

\* isinstance(dep_info, Table): tomlkit's InlineTable is a sibling of
\* Table (both derive from AbstractTable), not a subclass of it.
IsTable(kind) == kind = "Table"

\* pkg_name_to_repo_name_map after the loop over the plugins directory:
\* every directory with a package name puts its entry, in listing order.
RECURSIVE BuildMap(_, _, _)
BuildMap(order, dirs, map) ==
    IF order = <<>> THEN map
    ELSE LET repo == Head(order)
             pkg_name == PackageName(dirs[repo])
             next == IF dirs[repo][1] = "dir" /\ pkg_name # NoString
                     THEN [n \in DOMAIN map \cup {Normalize(pkg_name)} |->
                             IF n = Normalize(pkg_name) THEN repo ELSE map[n]]
                     ELSE map
         IN  BuildMap(Tail(order), dirs, next)

\* The map of lines 300-323: filled only when a workspace member starts
\* with the plugins directory; a second matching member fills it again with
\* the same entries.
RepoNameMap(members, order, dirs) ==
    IF \E i \in DOMAIN members : StartsWithPluginsDir(members[i])
    THEN BuildMap(order, dirs, <<>>)
    ELSE <<>>

GitUrl(name, repo, branch) ==
    name \o <<" @ git+https://github.com/org/", repo, ".git@", branch>>

\* process_dependency
ProcessDependency(dep_name, dep_info, map, branch) ==
    IF IsTable(dep_info.kind)
    THEN IF Normalize(dep_name) \in DOMAIN map
         THEN GitUrl(dep_name, map[Normalize(dep_name)], branch)
         ELSE NoString
    ELSE IF HasFileUrl(dep_info.text)
    THEN LET pkg_name_from_str == StripStr(BeforeAt(dep_info.text)) IN
         IF Normalize(pkg_name_from_str) \in DOMAIN map
         THEN GitUrl(pkg_name_from_str, map[Normalize(pkg_name_from_str)], branch)
         ELSE NoString
    ELSE Cleaned(dep_info.text)

\* Lines 372-396: the entries collected from the main dependencies (a table
\* or an array) and from the optional group.
ProdDeps(form, main, opt, map, branch) ==
    LET fromMain ==
            IF form = "table"
            THEN {ProcessDependency(main[i].key, main[i], map, branch) :
                    i \in DOMAIN main}
            ELSE IF form = "array"
            THEN {ProcessDependency(BeforeAt(main[i].text), main[i], map, branch) :
                    i \in DOMAIN main}
            ELSE {}
        fromOpt ==
            {ProcessDependency(BeforeAt(opt[i].text), opt[i], map, branch) :
                i \in DOMAIN opt}
    IN  (fromMain \cup fromOpt) \ {NoString}

\* requirements.prod.in
NoFile == <<"absent", <<>>>>

FileOf(lines) == <<"file", lines>>

\* What an earlier run may have left.
StaleFile == FileOf(<<<<"u">>>>)

\* prod_input_path.unlink(missing_ok=True)
UnlinkKeeps(file) == file

Unlink(file) == NoFile

PkgState(at, branch, members, dirs, form, main, opt, order, deps, file, result) ==
    /\ pPc = at
    /\ pBranch = branch
    /\ pMembers = members
    /\ pDirs = dirs
    /\ pForm = form
    /\ pMain = main
    /\ pOpt = opt
    /\ pOrder = order
    /\ pDeps = deps
    /\ pFile = file
    /\ pResult = result

\* Before the call: any manifest with at most MaxDeps dependencies, any
\* plugins directory, with or without the file of an earlier run.
PkgInit ==
    \E branch \in {"main", DEV_BRANCH}, members \in MemberPatterns,
       dirs \in [Repos -> DirKinds], form \in {"absent", "array", "table"},
       file \in {NoFile, StaleFile} :
    \E main \in SeqsUpTo(IF form = "table" THEN TableEntries ELSE ArrayItems,
                         IF form = "absent" THEN 0 ELSE MaxDeps) :
    \E opt \in SeqsUpTo(ArrayItems, MaxDeps - Len(main)) :
        /\ form = "table" =>
             \A i, j \in DOMAIN main : i # j => main[i].key # main[j].key
        \* --branch is given for manifests without optional groups; the
        \* others are packaged for config.DEV_BRANCH.
        /\ branch # DEV_BRANCH => opt = <<>>
        /\ PkgState("start", branch, members, dirs, form, main, opt, <<>>, {},
                    file, "none")

PkgQuiet ==
    PkgState("done", "main", <<>>, [r \in Repos |-> <<"file", NoString>>],
             "absent", <<>>, <<>>, <<>>, {}, NoFile, "none")

pFixed == <<pBranch, pMembers, pDirs, pForm, pMain, pOpt>>

\* The `except Exception` handler of lines 421-425.
PkgFail ==
    /\ pFile' = Unlink(pFile)
    /\ pPc' = "done"
    /\ pResult' = "failed"

\* Lines 297-400: the manifest is read and parsed, the map is built from
\* the plugins directory as iterdir() lists it, the dependencies are
\* processed.
PkgCollect(parsed, order) ==
    /\ pPc = "start"
    /\ IF ~parsed
       THEN PkgFail /\ UNCHANGED <<pOrder, pDeps>>
       ELSE LET map == RepoNameMap(pMembers, order, pDirs)
                deps == ProdDeps(pForm, pMain, pOpt, map, pBranch)
            IN  /\ pOrder' = order
                /\ pDeps' = deps
                /\ IF deps = {}
                   THEN pPc' = "done" /\ pResult' = "no dependencies"
                   ELSE pPc' = "write" /\ pResult' = pResult
                /\ pFile' = pFile
    /\ UNCHANGED pFixed
    /\ UNCHANGED nonPkgVars

\* Lines 403-407: write_text of the sorted entries; a failed write may
\* leave a file behind before the handler runs.
PkgWrite(ok) ==
    /\ pPc = "write"
    /\ IF ok
       THEN /\ pFile' = FileOf(Sorted(pDeps))
            /\ pPc' = "compile"
            /\ pResult' = pResult
       ELSE PkgFail
    /\ UNCHANGED <<pFixed, pOrder, pDeps>>
    /\ UNCHANGED nonPkgVars

\* Lines 415-419: uv pip compile, run with check=True.
PkgCompile(out) ==
    /\ pPc = "compile"
    /\ IF Run(out, TRUE, NoText, NoText)[1] = "raise"
       THEN PkgFail
       ELSE /\ pFile' = pFile
            /\ pPc' = "done"
            /\ pResult' = "ok"
    /\ UNCHANGED <<pFixed, pOrder, pDeps>>
    /\ UNCHANGED nonPkgVars

\* The orders in which iterdir() can list the plugins directory.
ListingOrders ==
    {o \in [1..Cardinality(Repos) -> Repos] : \A i, j \in DOMAIN o : i # j => o[i] # o[j]}

PkgNext ==
    \/ \E parsed \in BOOLEAN, order \in ListingOrders : PkgCollect(parsed, order)
    \/ \E ok \in BOOLEAN : PkgWrite(ok)
    \/ \E out \in CmdOutcomes : PkgCompile(out)
(***************************************************************************)
(* CommandBase._get_target_paths (nbm.py).                                 *)
(*                                                                         *)
(* A path is the sequence of its parts below PROJECT_ROOT: <<>> is the     *)
(* project root, <<"plugins", n>> the entry n of the plugins directory,    *)
(* which config.py places under the root. An entry name is the number of   *)
(* its place among the names in string order.                              *)
(***************************************************************************)
\* Names in the plugins directory.
MaxEntries == 3

EntryNames == 1..MaxEntries

Scopes == {"all", "plugins", "root"}

\* What a name of the plugins directory can be: nothing, a directory with
\* a .git directory, a directory with a .git file (a worktree or a
\* submodule), a directory without .git, or a file.
EntryKinds == {"absent", "repo", "gitfile", "dir", "file"}

\* (p / ".git").is_dir()
HasGitDir(kind) == kind = "repo"

PROJECT_ROOT == <<>>

PluginPath(n) == <<PLUGINS_SRC_DIR, n>>

\* a < b for two paths: pathlib compares the sequences of parts.
RECURSIVE PathLess(_, _)
PathLess(a, b) ==
    IF b = <<>> THEN FALSE
    ELSE IF a = <<>> THEN TRUE
    ELSE IF Head(a) = Head(b) THEN PathLess(Tail(a), Tail(b))
    ELSE Head(a) < Head(b)

\* sorted(paths)
AsListed(paths) == paths

SortedPaths(paths) ==
    LET S == {paths[i] : i \in DOMAIN paths} IN
    CHOOSE s \in [1..Cardinality(S) -> S] :
        \A i, j \in 1..Cardinality(S) : i < j => PathLess(s[i], s[j])

\* The generator of lines 66-68 over the listing.
RECURSIVE GitEntries(_, _)
GitEntries(listing, entries) ==
    IF listing = <<>> THEN <<>>
    ELSE (IF HasGitDir(entries[Head(listing)])
          THEN <<PluginPath(Head(listing))>> ELSE <<>>)
         \o GitEntries(Tail(listing), entries)

\* _get_target_paths
GetTargetPaths(scope, rootGit, listing, entries) ==
    LET plugins == IF scope \in {"all", "plugins"}
                   THEN GitEntries(listing, entries) ELSE <<>>
        paths == IF scope \in {"all", "root"} /\ rootGit
                 THEN <<PROJECT_ROOT>> \o plugins ELSE plugins
    IN  SortedPaths(paths)

\* The names present in the plugins directory.
Present(entries) == {n \in EntryNames : entries[n] # "absent"}

\* The orders in which iterdir() can list them.
Listings(entries) ==
    {l \in [1..Cardinality(Present(entries)) -> Present(entries)] :
        \A i, j \in DOMAIN l : i # j => l[i] # l[j]}

DiscoverState(scope, rootGit, pluginsDir, entries, listing, paths, done) ==
    /\ tScope = scope
    /\ tRootGit = rootGit
    /\ tPluginsDir = pluginsDir
    /\ tEntries = entries
    /\ tListing = listing
    /\ tPaths = paths
    /\ tDone = done

\* Before the call: any scope, any content of the plugins directory; a
\* plugins directory that does not exist has no entries.
DiscoverInit ==
    \E scope \in Scopes, rootGit \in BOOLEAN, pluginsDir \in BOOLEAN,
       entries \in [EntryNames -> EntryKinds] :
        /\ ~pluginsDir => Present(entries) = {}
        /\ DiscoverState(scope, rootGit, pluginsDir, entries, <<>>, <<>>, FALSE)

DiscoverQuiet ==
    DiscoverState("root", FALSE, FALSE, [n \in EntryNames |-> "absent"],
                  <<>>, <<>>, TRUE)

\* One construction of a command: lines 62-72.
Discover(listing) ==
    /\ ~tDone
    /\ tPluginsDir' = (tPluginsDir \/ tScope \in {"all", "plugins"})
    /\ tListing' = IF tScope \in {"all", "plugins"} THEN listing ELSE <<>>
    /\ tPaths' = GetTargetPaths(tScope, tRootGit, listing, tEntries)
    /\ tDone' = TRUE
    /\ UNCHANGED <<tScope, tRootGit, tEntries>>
    /\ UNCHANGED nonDiscoverVars

DiscoverNext == \E listing \in Listings(tEntries) : Discover(listing)
(***************************************************************************)
(* main, ensure_venv_exists and the execute methods of InitCommand,        *)
(* AddCommand, RemoveCommand, PackageCommand and DiagnoseCommand (nbm.py). *)
(***************************************************************************)
\* URLs in the plugin list that init sets up.
MaxUrls == 2

CliCommands == {"init", "add", "remove", "package", "diagnose"}

\* The commands whose execute begins with ensure_venv_exists().
CallsEnsureVenv(cmd) == cmd \in {"init", "remove", "diagnose"}

\* What add_local_dependency does: returns, or raises one of its two errors.
AddDepOutcomes == {"ok", "CommandError", "FileNotFoundError"}

\* The invocations of the dependency-resolution tool.
UvTools == {"uv add", "uv remove", "uv lock", "uv sync", "uv pip compile"}

\* sys.exit(code), and the end of main without an exception (code 0).
CliExit(code, failure) ==
    /\ cPc' = "exited"
    /\ cCode' = code
    /\ cFailure' = failure

\* An external command is run.
CliRun(cmd) ==
    /\ cTrace' = Append(cTrace, cmd)
    /\ cUnchecked' = (cUnchecked \/ (cmd \in UvTools /\ ~cChecked))

CliInit ==
    /\ cCmd \in CliCommands
    /\ cInstall \in BOOLEAN
    /\ cInstall => cCmd = "init"
    /\ cPc = "start"
    /\ cVenv \in BOOLEAN
    /\ cChecked = FALSE
    /\ cPaths = 0
    /\ cTrace = <<>>
    /\ cUnchecked = FALSE
    /\ cFailure = "none"
    /\ cCode = 0

CliQuiet ==
    /\ cCmd = "init"
    /\ cInstall = FALSE
    /\ cPc = "exited"
    /\ cVenv = TRUE
    /\ cChecked = FALSE
    /\ cPaths = 0
    /\ cTrace = <<>>
    /\ cUnchecked = FALSE
    /\ cFailure = "none"
    /\ cCode = 0

cFixed == <<cCmd, cInstall>>

\* main, lines 617-621: the command object is built and execute begins.
CliStart ==
    /\ cPc = "start"
    /\ cPc' = IF CallsEnsureVenv(cCmd) THEN "venv" ELSE cCmd
    /\ UNCHANGED <<cFixed, cVenv, cChecked, cPaths, cTrace, cUnchecked,
                   cFailure, cCode>>
    /\ UNCHANGED nonCliVars

\* ensure_venv_exists: `uv venv` runs when .venv is not a directory; when
\* it fails the process exits with code 1.
EnsureVenv(created) ==
    /\ cPc = "venv"
    /\ cChecked' = TRUE
    /\ IF cVenv
       THEN /\ cPc' = cCmd
            /\ UNCHANGED <<cVenv, cTrace, cUnchecked, cFailure, cCode>>
       ELSE /\ cTrace' = Append(cTrace, "uv venv")
            /\ cUnchecked' = cUnchecked
            /\ IF created
               THEN cVenv' = TRUE /\ cPc' = cCmd /\ UNCHANGED <<cFailure, cCode>>
               ELSE cVenv' = cVenv /\ CliExit(1, "venv")
    /\ UNCHANGED <<cFixed, cPaths>>
    /\ UNCHANGED nonCliVars

\* InitCommand.execute, lines 126-152: without a plugin list, or when no
\* repository was set up, execute returns.
InitSetup(listed, good) ==
    /\ cPc = "init"
    /\ IF ~listed
       THEN /\ CliExit(0, "none")
            /\ UNCHANGED <<cPaths, cTrace, cUnchecked>>
       ELSE /\ CliRun("setup")
            /\ cPaths' = good
            /\ IF good = 0
               THEN CliExit(0, "setup")
               ELSE cPc' = "init_add" /\ UNCHANGED <<cFailure, cCode>>
    /\ UNCHANGED <<cFixed, cVenv, cChecked>>
    /\ UNCHANGED nonCliVars

\* Lines 155-165: add_local_dependency for the next path.  CommandError is
\* caught and ends the process with sys.exit(1); FileNotFoundError reaches
\* the `except Exception` of main.
InitAddDep(out) ==
    /\ cPc = "init_add"
    /\ IF out = "FileNotFoundError"
       THEN UNCHANGED <<cTrace, cUnchecked>>
       ELSE CliRun("uv add")
    /\ IF out = "ok"
       THEN /\ cPaths' = cPaths - 1
            /\ cPc' = IF cPaths = 1 THEN "init_lock" ELSE "init_add"
            /\ UNCHANGED <<cFailure, cCode>>
       ELSE /\ cPaths' = cPaths
            /\ CliExit(1, "add_dep")
    /\ UNCHANGED <<cFixed, cVenv, cChecked>>
    /\ UNCHANGED nonCliVars

\* Lines 170-178: uv lock.
InitLock(ok) ==
    /\ cPc = "init_lock"
    /\ CliRun("uv lock")
    /\ IF ok
       THEN IF cInstall
            THEN cPc' = "init_sync" /\ UNCHANGED <<cFailure, cCode>>
            ELSE CliExit(0, "none")
       ELSE CliExit(1, "lock")
    /\ UNCHANGED <<cFixed, cVenv, cChecked, cPaths>>
    /\ UNCHANGED nonCliVars

\* Lines 180-185: uv sync --all-extras (check=True); its CommandError
\* is caught by main.
InitSync(ok) ==
    /\ cPc = "init_sync"
    /\ CliRun("uv sync")
    /\ IF ok THEN CliExit(0, "none") ELSE CliExit(1, "sync")
    /\ UNCHANGED <<cFixed, cVenv, cChecked, cPaths>>
    /\ UNCHANGED nonCliVars

\* AddCommand.execute, lines 192-196: setup_plugin_repo; execute returns
\* when it failed.
AddSetup(status) ==
    /\ cPc = "add"
    /\ CliRun("setup")
    /\ IF status = "failed"
       THEN CliExit(0, "setup")
       ELSE cPc' = "add_dep" /\ UNCHANGED <<cFailure, cCode>>
    /\ UNCHANGED <<cFixed, cVenv, cChecked, cPaths>>
    /\ UNCHANGED nonCliVars

\* Lines 198-214: add_local_dependency; both of its errors are caught and
\* execute returns; otherwise the plugin list is updated.
AddDep(out) ==
    /\ cPc = "add_dep"
    /\ IF out = "FileNotFoundError"
       THEN UNCHANGED <<cTrace, cUnchecked>>
       ELSE CliRun("uv add")
    /\ IF out = "ok" THEN CliExit(0, "none") ELSE CliExit(0, "add_dep")
    /\ UNCHANGED <<cFixed, cVenv, cChecked, cPaths>>
    /\ UNCHANGED nonCliVars

\* RemoveCommand.execute, lines 222-243: remove_dependency runs uv remove
\* and returns False on a failure, after which execute returns.
RemoveRun(ok) ==
    /\ cPc = "remove"
    /\ CliRun("uv remove")
    /\ IF ok THEN CliExit(0, "none") ELSE CliExit(0, "remove")
    /\ UNCHANGED <<cFixed, cVenv, cChecked, cPaths>>
    /\ UNCHANGED nonCliVars

\* PackageCommand.execute: create_production_package catches every
\* Exception of its pipeline, logs it and returns.
PackageRun(parsed, compiled) ==
    /\ cPc = "package"
    /\ IF parsed
       THEN CliRun("uv pip compile")
       ELSE UNCHANGED <<cTrace, cUnchecked>>
    /\ IF parsed /\ compiled THEN CliExit(0, "none") ELSE CliExit(0, "package")
    /\ UNCHANGED <<cFixed, cVenv, cChecked, cPaths>>
    /\ UNCHANGED nonCliVars

\* DiagnoseCommand.execute: uv lock with check=False; it reports and returns.
DiagnoseRun ==
    /\ cPc = "diagnose"
    /\ CliRun("uv lock")
    /\ CliExit(0, "none")
    /\ UNCHANGED <<cFixed, cVenv, cChecked, cPaths>>
    /\ UNCHANGED nonCliVars

\* main, lines 626-628: KeyboardInterrupt while the command runs.
CliInterrupt ==
    /\ cPc \notin {"start", "exited"}
    /\ CliExit(130, cFailure)
    /\ UNCHANGED <<cFixed, cVenv, cChecked, cPaths, cTrace, cUnchecked>>
    /\ UNCHANGED nonCliVars

CliNext ==
    \/ CliStart
    \/ \E created \in BOOLEAN : EnsureVenv(created)
    \/ \E listed \in BOOLEAN, good \in 0..MaxUrls : InitSetup(listed, good)
    \/ \E out \in AddDepOutcomes : InitAddDep(out)
    \/ \E ok \in BOOLEAN : InitLock(ok)
    \/ \E ok \in BOOLEAN : InitSync(ok)
    \/ \E status \in SetupStatuses : AddSetup(status)
    \/ \E out \in AddDepOutcomes : AddDep(out)
    \/ \E ok \in BOOLEAN : RemoveRun(ok)
    \/ \E parsed \in BOOLEAN, compiled \in BOOLEAN : PackageRun(parsed, compiled)
    \/ DiagnoseRun
    \/ CliInterrupt
(***************************************************************************)
(* config.load_settings and ManagerSettings (nbm_core/config.py).          *)
(*                                                                         *)
(* manage.toml is <<kind, manager>>: kind says whether the file is         *)
(* missing, unreadable, not TOML, TOML without a [manager] table, or TOML  *)
(* with one; manager gives the value of each key, <<"absent">> for a key   *)
(* that is not written.                                                    *)
(***************************************************************************)
FileKinds == {"missing", "unreadable", "unparsable", "no manager", "manager"}

Absent == <<"absent">>

\* Values a key can have in the file: integers and strings.
IntValues == {<<"int", n>> : n \in {-1, 0, 1, 3}}

StrValues == {<<"str", s>> : s \in {"main", "x"}}

\* ManagerSettings: the defaults of lines 27-37.
DefaultSettings ==
    [max_workers |-> <<"int", 8>>, command_timeout |-> <<"int", 1200>>,
     dev_branch |-> <<"str", "dev">>]

\* Field(gt=0) on an int field; "x" is a string that is not a number.
ValidIntAny(v) == v[1] = "int"

ValidInt(v) == v[1] = "int" /\ v[2] > 0

\* A str field.
ValidStr(v) == v[1] = "str"

\* ManagerSettings.model_validate: ValidationError when a written value
\* does not fit its field, otherwise the written values over the defaults.
Valid(manager) ==
    /\ manager.max_workers # Absent => ValidInt(manager.max_workers)
    /\ manager.command_timeout # Absent => ValidInt(manager.command_timeout)
    /\ manager.dev_branch # Absent => ValidStr(manager.dev_branch)

ModelValidate(manager) ==
    [k \in DOMAIN DefaultSettings |->
        IF manager[k] = Absent THEN DefaultSettings[k] ELSE manager[k]]

NoKeys == [k \in DOMAIN DefaultSettings |-> Absent]

\* What the try block of lines 50-52 raises: read_text fails, tomlkit
\* cannot parse the text, or a value does not validate.
SettingsException(file) ==
    IF file[1] = "unreadable" THEN "OSError"
    ELSE IF file[1] = "unparsable" THEN "ParseError"
    ELSE IF file[1] = "manager" /\ ~Valid(file[2]) THEN "ValidationError"
    ELSE "none"

\* `except (ValidationError, Exception)`
CatchesValidationOnly(e) == e = "ValidationError"

Catches(e) == e \in {"ValidationError", "OSError", "ParseError"}

\* load_settings, lines 45-55.
LoadSettings(file) ==
    IF file[1] = "missing" THEN <<"return", DefaultSettings>>
    ELSE LET e == SettingsException(file)
             manager == IF file[1] = "manager" THEN file[2] ELSE NoKeys
         IN  IF e = "none" THEN <<"return", ModelValidate(manager)>>
             ELSE IF Catches(e) THEN <<"return", DefaultSettings>>
             ELSE <<"raise", e>>

SettingsInit ==
    /\ gResult = <<"none">>
    /\ \E kind \in FileKinds,
          mw \in IntValues \cup StrValues \cup {Absent},
          ct \in IntValues \cup {Absent},
          db \in StrValues \cup {<<"int", 3>>, Absent} :
        /\ kind # "manager" => (mw = Absent /\ ct = Absent /\ db = Absent)
        /\ gFile = <<kind, [max_workers |-> mw, command_timeout |-> ct,
                            dev_branch |-> db]>>

SettingsQuiet ==
    /\ gResult = <<"none">>
    /\ gFile = <<"missing", NoKeys>>

\* The module is imported: `settings = load_settings()` (line 60).
Load ==
    /\ gResult = <<"none">>
    /\ gResult' = LoadSettings(gFile)
    /\ UNCHANGED gFile
    /\ UNCHANGED nonSettingsVars

SettingsNext == Load
(***************************************************************************)
(* git.get_repo_name_from_url (nbm_core/git.py) and the first lines of     *)
(* project.setup_plugin_repo (nbm_core/project.py).                        *)
(*                                                                         *)
(* A URL is the sequence of its pieces: a scheme, a host, a separator,     *)
(* names, "/" and ".git".  A name holds neither "/" nor ".git".            *)
(***************************************************************************)
UrlSchemes == {<<>>, <<"https://">>, <<"git@">>}

UrlHosts == {"github.com", "gitlab.com"}

UrlOwners == {<<>>, <<"acme">>}

UrlRepos == {<<>>, <<"foo">>, <<"bar">>}

\* What follows the repository name: nothing, ".git", "/" or a further
\* path.
UrlEnds == {<<>>, <<".git">>, <<"/">>, <<"/", "tree">>}

\* The URL made of these parts; an owner or a repository that is not
\* there leaves out its separator too.
MakeUrl(scheme, host, sep, owner, repo, end) ==
    scheme \o <<host>>
        \o (IF owner = <<>> THEN <<>> ELSE <<sep>> \o owner)
        \o (IF owner = <<>> \/ repo = <<>> THEN <<>> ELSE <<"/">> \o repo \o end)

\* The return value None.
NoMatch == <<"None">>

\* `(\.git)?$` after the lazy `[^/]+?`: a final ".git" is left out of the
\* group unless nothing else would be left of the name.
KeepGit(repo) == repo

WithoutGit(repo) ==
    IF Len(repo) > 1 /\ repo[Len(repo)] = ".git"
    THEN SubSeq(repo, 1, Len(repo) - 1) ELSE repo

\* The regular expression of line 28 tried at piece i: "github.com", then
\* "/" or ":", then `[^/]+/[^/]+?`, then an optional ".git" and the end.
MatchAt(url, i) ==
    LET rest == SubSeq(url, i + 2, Len(url))
        slashes == {j \in DOMAIN rest : rest[j] = "/"}
    IN  IF /\ i + 1 <= Len(url)
           /\ url[i] = "github.com"
           /\ url[i + 1] \in {"/", ":"}
           /\ Cardinality(slashes) = 1
           /\ \A j \in slashes : 1 < j /\ j < Len(rest)
        THEN LET j == CHOOSE k \in slashes : TRUE IN
             SubSeq(rest, 1, j) \o WithoutGit(SubSeq(rest, j + 1, Len(rest)))
        ELSE NoMatch

\* get_repo_name_from_url: re.search takes the leftmost match.
GetRepoNameFromUrl(url) ==
    LET hits == {i \in DOMAIN url : MatchAt(url, i) # NoMatch} IN
    IF hits = {} THEN NoMatch
    ELSE MatchAt(url, CHOOSE i \in hits : \A k \in hits : i <= k)

\* repo_name.split("/")[-1]
RECURSIVE LastSegment(_)
LastSegment(s) ==
    IF \E i \in DOMAIN s : s[i] = "/"
    THEN LastSegment(Tail(s)) ELSE s

\* setup_plugin_repo, lines 84-131: for a URL that does not parse,
\* ("failed", None) without any command; otherwise the names it derives,
\* and a status with the number of commands the rest of the function ran
\* (none when the directory exists already).
SetupPluginRepo(url, status, commands) ==
    LET repo_name == GetRepoNameFromUrl(url) IN
    IF repo_name = NoMatch
    THEN [status |-> "failed", path |-> NoMatch, commands |-> 0,
          repo_name |-> NoMatch, plugin_name |-> NoMatch]
    ELSE [status |-> status,
          path |-> IF status = "failed" THEN NoMatch
                   ELSE PluginPath(LastSegment(repo_name)),
          commands |-> IF status = "exists" THEN 0 ELSE commands,
          repo_name |-> repo_name,
          plugin_name |-> LastSegment(repo_name)]

UrlInit ==
    /\ uFn = "none"
    /\ uResult = NoMatch
    /\ \E scheme \in UrlSchemes, host \in UrlHosts, sep \in {"/", ":"},
          owner \in UrlOwners, repo \in UrlRepos, end \in UrlEnds :
        /\ uMade = [host |-> host, owner |-> owner, repo |-> repo, end |-> end]
        /\ uUrl = MakeUrl(scheme, host, sep, owner, repo, end)

UrlQuiet ==
    /\ uFn = "none"
    /\ uResult = NoMatch
    /\ uMade = [host |-> "gitlab.com", owner |-> <<>>, repo |-> <<>>, end |-> <<>>]
    /\ uUrl = <<"gitlab.com">>

ParseUrl ==
    /\ uFn = "none"
    /\ uFn' = "get_repo_name_from_url"
    /\ uResult' = GetRepoNameFromUrl(uUrl)
    /\ UNCHANGED <<uUrl, uMade>>
    /\ UNCHANGED nonUrlVars

SetupUrl(status, commands) ==
    /\ uFn = "none"
    /\ uFn' = "setup_plugin_repo"
    /\ uResult' = SetupPluginRepo(uUrl, status, commands)
    /\ UNCHANGED <<uUrl, uMade>>
    /\ UNCHANGED nonUrlVars

UrlNext ==
    \/ ParseUrl
    \/ \E status \in SetupStatuses, commands \in 1..2 : SetupUrl(status, commands)
(***************************************************************************)
(* InitCommand.execute, lines 138-146 (nbm.py): setup_plugin_repo          *)
(* (nbm_core/project.py) runs for two listed URLs in two threads of the    *)
(* pool.  The URLs may resolve to the same plugin name, e.g. the same      *)
(* repository listed with and without ".git".                              *)
(***************************************************************************)
SetupWorkers == {"A", "B"}

LocalPaths == {"foo", "bar"}

\* A directory is absent, was there before init ("old"), or was made by
\* the clone of a worker.
DirStates == {"absent", "old"} \cup SetupWorkers

RaceInit ==
    /\ kPath \in [SetupWorkers -> LocalPaths]
    /\ kPc = [w \in SetupWorkers |-> "start"]
    /\ kStatus = [w \in SetupWorkers |-> "none"]
    /\ kDir \in [LocalPaths -> {"absent", "old"}]
    /\ kLost = {}

RaceQuiet ==
    /\ kPath = [w \in SetupWorkers |-> "foo"]
    /\ kPc = [w \in SetupWorkers |-> "done"]
    /\ kStatus = [w \in SetupWorkers |-> "failed"]
    /\ kDir = [p \in LocalPaths |-> "absent"]
    /\ kLost = {}

RaceReturn(w, status) ==
    /\ kPc' = [kPc EXCEPT ![w] = "done"]
    /\ kStatus' = [kStatus EXCEPT ![w] = status]

\* Lines 89-92: local_path.exists().
RaceExists(w) ==
    /\ kPc[w] = "start"
    /\ IF kDir[kPath[w]] # "absent"
       THEN RaceReturn(w, "exists")
       ELSE kPc' = [kPc EXCEPT ![w] = "fork"] /\ UNCHANGED kStatus
    /\ UNCHANGED <<kPath, kDir, kLost>>
    /\ UNCHANGED nonRaceVars

\* Lines 96-103: gh repo view / gh repo fork.
RaceFork(w, ok) ==
    /\ kPc[w] = "fork"
    /\ kPc' = [kPc EXCEPT ![w] = IF ok THEN "clone" ELSE "except"]
    /\ UNCHANGED <<kPath, kStatus, kDir, kLost>>
    /\ UNCHANGED nonRaceVars

\* Line 107: git clone; it fails when the directory is there already, and
\* makes the directory when it succeeds.
RaceClone(w, ok) ==
    /\ kPc[w] = "clone"
    /\ IF ok /\ kDir[kPath[w]] = "absent"
       THEN /\ kDir' = [kDir EXCEPT ![kPath[w]] = w]
            /\ kPc' = [kPc EXCEPT ![w] = "branch"]
       ELSE /\ kDir' = kDir
            /\ kPc' = [kPc EXCEPT ![w] = "except"]
    /\ UNCHANGED <<kPath, kStatus, kLost>>
    /\ UNCHANGED nonRaceVars

\* Lines 108-126: the git commands run inside the clone; they fail when
\* the directory is gone.
RaceBranch(w, ok) ==
    /\ kPc[w] = "branch"
    /\ IF ok /\ kDir[kPath[w]] # "absent"
       THEN RaceReturn(w, "success")
       ELSE kPc' = [kPc EXCEPT ![w] = "except"] /\ UNCHANGED kStatus
    /\ UNCHANGED <<kPath, kDir, kLost>>
    /\ UNCHANGED nonRaceVars

\* Lines 127-131: the handler removes local_path when it exists.
RaceCleanup(w) ==
    /\ kPc[w] = "except"
    /\ kDir' = [kDir EXCEPT ![kPath[w]] = "absent"]
    /\ kLost' = IF kDir[kPath[w]] \in SetupWorkers \ {w}
                THEN kLost \cup {kDir[kPath[w]]} ELSE kLost
    /\ RaceReturn(w, "failed")
    /\ UNCHANGED kPath
    /\ UNCHANGED nonRaceVars

RaceNext ==
    \E w \in SetupWorkers :
        \/ RaceExists(w)
        \/ \E ok \in BOOLEAN : RaceFork(w, ok)
        \/ \E ok \in BOOLEAN : RaceClone(w, ok)
        \/ \E ok \in BOOLEAN : RaceBranch(w, ok)
        \/ RaceCleanup(w)
(***************************************************************************)
(* Two StateManager.write calls (nbm_core/state.py) on the same path,      *)
(* running concurrently.  Both use the temporary path <path>.tmp.          *)
(*                                                                         *)
(* Files are inodes: inode 1 is the state file at the start, inode 2 and   *)
(* inode 3 are the temporary files writer 1 and writer 2 may create.       *)
(***************************************************************************)
Writers == {1, 2}

WriterInodes == 1..3

\* The inode a writer's open("w") creates when the temporary path is free.
NewInode(w) == w + 1

OldState == <<"old", 0>>

Empty == <<"empty", 0>>

Full(w) == <<"full", w>>

Mixed == <<"mixed", 0>>

ConcurrentInit ==
    /\ vPc = [w \in Writers |-> "open_tmp"]
    /\ vMain = 1
    /\ vTmp = 0
    /\ vData = [i \in WriterInodes |-> IF i = 1 THEN OldState ELSE Empty]
    /\ vHandle = [w \in Writers |-> 0]
    /\ vLockFh = [w \in Writers |-> 0]
    /\ vLock = [i \in WriterInodes |-> 0]
    /\ vEnded = [w \in Writers |-> "none"]
    /\ vDisturbed = {}

ConcurrentQuiet ==
    /\ vPc = [w \in Writers |-> "done"]
    /\ vMain = 1
    /\ vTmp = 0
    /\ vData = [i \in WriterInodes |-> IF i = 1 THEN OldState ELSE Empty]
    /\ vHandle = [w \in Writers |-> 0]
    /\ vLockFh = [w \in Writers |-> 0]
    /\ vLock = [i \in WriterInodes |-> 0]
    /\ vEnded = [w \in Writers |-> "none"]
    /\ vDisturbed = {}

\* The writers that have written their temporary file and not yet replaced
\* the state file with it, and whose temporary file is inode i.
Pending(i, w) ==
    {o \in Writers \ {w} : vHandle[o] = i /\ vPc[o] \in {"lock", "replace"}}

\* Line 41: temp_path.open("w") creates the temporary file or empties the
\* one that is there.
ConcOpenTmp(w) ==
    /\ vPc[w] = "open_tmp"
    /\ IF vTmp = 0
       THEN /\ vTmp' = NewInode(w)
            /\ vHandle' = [vHandle EXCEPT ![w] = NewInode(w)]
            /\ vData' = [vData EXCEPT ![NewInode(w)] = Empty]
            /\ vDisturbed' = vDisturbed
       ELSE /\ vTmp' = vTmp
            /\ vHandle' = [vHandle EXCEPT ![w] = vTmp]
            /\ vData' = [vData EXCEPT ![vTmp] = Empty]
            /\ vDisturbed' = vDisturbed \cup Pending(vTmp, w)
    /\ vPc' = [vPc EXCEPT ![w] = "dump"]
    /\ UNCHANGED <<vMain, vLockFh, vLock, vEnded>>
    /\ UNCHANGED nonConcurrentVars

\* Line 42: json.dump writes the text from the start of the file, which
\* is then closed; over the text of the other writer the result is this
\* writer's text (clean) or a mixture of the two.
ConcDump(w, clean) ==
    /\ vPc[w] = "dump"
    /\ vData' = [vData EXCEPT ![vHandle[w]] =
                    IF vData[vHandle[w]] = Empty \/ clean THEN Full(w) ELSE Mixed]
    /\ vDisturbed' = IF vData[vHandle[w]] = Empty THEN vDisturbed
                     ELSE vDisturbed \cup Pending(vHandle[w], w)
    /\ vPc' = [vPc EXCEPT ![w] = "lock"]
    /\ UNCHANGED <<vMain, vTmp, vHandle, vLockFh, vLock, vEnded>>
    /\ UNCHANGED nonConcurrentVars

\* Line 43: portalocker.Lock(path, "w", timeout=5) opens the state file,
\* takes its lock and truncates the file; when the other writer holds the
\* lock until the timeout, LockException is raised and caught.
ConcLock(w) ==
    /\ vPc[w] = "lock"
    /\ IF vLock[vMain] = 0
       THEN /\ vLock' = [vLock EXCEPT ![vMain] = w]
            /\ vLockFh' = [vLockFh EXCEPT ![w] = vMain]
            /\ vData' = [vData EXCEPT ![vMain] = Empty]
            /\ vPc' = [vPc EXCEPT ![w] = "replace"]
            /\ vEnded' = vEnded
       ELSE /\ vLock' = vLock
            /\ vLockFh' = vLockFh
            /\ vData' = vData
            /\ vPc' = [vPc EXCEPT ![w] = "unlink"]
            /\ vEnded' = [vEnded EXCEPT ![w] = "failed"]
    /\ UNCHANGED <<vMain, vTmp, vHandle, vDisturbed>>
    /\ UNCHANGED nonConcurrentVars

\* Line 44: temp_path.replace(self.path) renames whatever file the
\* temporary path names over the state file; FileNotFoundError (an
\* OSError, caught) when there is none.  Leaving the with-block releases
\* the lock.
ConcReplace(w) ==
    /\ vPc[w] = "replace"
    /\ IF vTmp # 0
       THEN /\ vMain' = vTmp
            /\ vTmp' = 0
            /\ vEnded' = [vEnded EXCEPT ![w] = "ok"]
            /\ vDisturbed' = vDisturbed \cup Pending(vTmp, w)
       ELSE /\ vMain' = vMain
            /\ vTmp' = vTmp
            /\ vEnded' = [vEnded EXCEPT ![w] = "failed"]
            /\ vDisturbed' = vDisturbed
    /\ vLock' = [vLock EXCEPT ![vLockFh[w]] = 0]
    /\ vLockFh' = [vLockFh EXCEPT ![w] = 0]
    /\ vPc' = [vPc EXCEPT ![w] = "unlink"]
    /\ UNCHANGED <<vData, vHandle>>
    /\ UNCHANGED nonConcurrentVars

\* Lines 47-48: finally: temp_path.unlink(missing_ok=True).
ConcUnlink(w) ==
    /\ vPc[w] = "unlink"
    /\ vTmp' = 0
    /\ vDisturbed' = IF vTmp = 0 THEN vDisturbed
                     ELSE vDisturbed \cup Pending(vTmp, w)
    /\ vPc' = [vPc EXCEPT ![w] = "done"]
    /\ UNCHANGED <<vMain, vData, vHandle, vLockFh, vLock, vEnded>>
    /\ UNCHANGED nonConcurrentVars

ConcurrentNext ==
    \E w \in Writers :
        \/ ConcOpenTmp(w)
        \/ \E clean \in BOOLEAN : ConcDump(w, clean)
        \/ ConcLock(w)
        \/ ConcReplace(w)
        \/ ConcUnlink(w)
(***************************************************************************)
(* The plugin list file: project.update_plugins_list (nbm_core/project.py) *)
(* as AddCommand.execute and RemoveCommand.execute (nbm.py) call it.       *)
(*                                                                         *)
(* A line is the sequence of its pieces: " " (whitespace), "#", "/",       *)
(* ".git", and names, which hold none of these.  "FOO" is the name "foo"   *)
(* in upper case; every other piece is in lower case.                      *)
(***************************************************************************)
\* The most lines a plugin list file holds before the command.
MaxLines == 2

Blank == <<>>

UrlFoo == <<"https://github.com/acme", "/", "foo">>

UrlBar == <<"https://github.com/acme", "/", "bar">>

\* The URLs the add command is given.
AddUrls == {UrlFoo, UrlFoo \o <<".git">>, UrlBar}

\* The names the remove command is given.
RemoveNames == {"foo", "FOO", "bar"}

\* The lines a plugin list file is made of.
LineValues ==
    {Blank, <<" ">>,
     UrlFoo, UrlFoo \o <<".git">>, <<" ">> \o UrlFoo \o <<" ">>,
     <<"https://github.com/acme", "/", "FOO">>, UrlFoo \o <<"/">>,
     UrlBar, <<"#", " ", "note">>, <<"#", " ">> \o UrlFoo}

ListFiles == UNION {[1..n -> LineValues] : n \in 0..MaxLines}

\* str.lower()
Lower(s) == [i \in DOMAIN s |-> IF s[i] = "FOO" THEN "foo" ELSE s[i]]

\* str.endswith(suffix)
EndsWith(s, suffix) ==
    /\ Len(suffix) <= Len(s)
    /\ SubSeq(s, Len(s) - Len(suffix) + 1, Len(s)) = suffix

\* Lines 265-273: the condition under which the remove action drops a line.
RemoveMatches(line, plugin_name) ==
    LET l == Lower(StripStr(line))
        n == Lower(<<plugin_name>>)
    IN  \/ EndsWith(l, <<"/">> \o n)
        \/ EndsWith(l, <<"/">> \o n \o <<".git">>)

\* Lines 283-284: "\n".join(line for line in lines if line.strip()) + "\n",
\* written and read back with splitlines(): the text "\n" written for an
\* empty list reads back as one empty line.
Written(lines) ==
    LET kept == SelectSeq(lines, LAMBDA line : StripStr(line) # <<>>)
    IN  IF kept = <<>> THEN <<Blank>> ELSE kept

\* Lines 258-261: the add action appends the URL unless a line equals it.
Appended(lines, url) ==
    IF \E i \in DOMAIN lines : lines[i] = url THEN lines ELSE Append(lines, url)

\* update_plugins_list(url, plugin_name, action): the file after the call.
UpdatePluginsList(exists, lines, url, plugin_name, action) ==
    IF ~exists /\ action = "remove"
    THEN [exists |-> FALSE, lines |-> <<>>, writes |-> 0]
    ELSE [exists |-> TRUE,
          lines |-> Written(
              IF action = "add"
              THEN Appended(lines, url)
              ELSE SelectSeq(lines, LAMBDA line : ~RemoveMatches(line, plugin_name))),
          writes |-> 1]

ListInit ==
    /\ mPc = "ready"
    /\ mExists \in BOOLEAN
    /\ mLines \in ListFiles
    /\ ~mExists => mLines = <<>>
    /\ mExists0 = mExists
    /\ mLines0 = mLines
    /\ mCmd = <<"none">>
    /\ mWrites = 0

ListQuiet ==
    /\ mPc = "done"
    /\ mExists = FALSE
    /\ mLines = <<>>
    /\ mExists0 = FALSE
    /\ mLines0 = <<>>
    /\ mCmd = <<"none">>
    /\ mWrites = 0

ListApply(file) ==
    /\ mExists' = file.exists
    /\ mLines' = file.lines
    /\ mWrites' = mWrites + file.writes

\* AddCommand.execute (nbm.py 191-214): setup_plugin_repo, then
\* add_local_dependency, then update_plugins_list(url=url, action="add");
\* a failed setup or a dependency error ends the command before the next
\* step.
ListAdd(url, status, dep) ==
    /\ mPc = "ready"
    /\ mPc' = "done"
    /\ mCmd' = <<"add", url, status, dep>>
    /\ IF status = "failed" \/ dep # "ok"
       THEN UNCHANGED <<mExists, mLines, mWrites>>
       ELSE ListApply(UpdatePluginsList(mExists, mLines, url, "", "add"))
    /\ UNCHANGED <<mExists0, mLines0>>
    /\ UNCHANGED nonListVars

\* RemoveCommand.execute (nbm.py 220-227): remove_dependency, and when it
\* returned True, update_plugins_list(plugin_name=..., action="remove").
ListRemove(plugin_name, removed) ==
    /\ mPc = "ready"
    /\ mPc' = "done"
    /\ mCmd' = <<"remove", plugin_name, removed>>
    /\ IF ~removed
       THEN UNCHANGED <<mExists, mLines, mWrites>>
       ELSE ListApply(UpdatePluginsList(mExists, mLines, <<>>, plugin_name, "remove"))
    /\ UNCHANGED <<mExists0, mLines0>>
    /\ UNCHANGED nonListVars

ListNext ==
    \/ \E url \in AddUrls, status \in {"success", "exists", "failed"},
          dep \in AddDepOutcomes : ListAdd(url, status, dep)
    \/ \E plugin_name \in RemoveNames, removed \in BOOLEAN :
          ListRemove(plugin_name, removed)
(***************************************************************************)
(* CommitCommand (nbm.py): execute computes one Change-ID from the time    *)
(* and the message, then ConcurrentCommand.execute runs worker on every    *)
(* target repository.                                                      *)
(***************************************************************************)
\* The most the clock advances during one invocation.
MaxTicks == 2

CommitRepos == {1, 2}

CommitMessages == {"fix", "feat"}

NotSet == <<>>

\* f"I{hashlib.sha1(timestamp + msg_bytes).hexdigest()[:10]}": a value
\* that differs when the time or the message does.
ChangeIdOf(time, message) == <<"I", time, message>>

\* The Change-ID a worker puts in its message: self.change_id, as execute
\* set it.
WorkerChangeIdNow == ChangeIdOf(qClock, qMsg)

WorkerChangeId == qChangeId

\* f"{self.args.message}\n\nChange-ID: {self.change_id}"
FullMessage == <<qMsg, "Change-ID", WorkerChangeId>>

CommitInit ==
    /\ qPc = "start"
    /\ qMsg \in CommitMessages
    /\ qClock = 0
    /\ qChangeId = NotSet
    /\ qIds = {}
    /\ qDirty \in [CommitRepos -> BOOLEAN]
    /\ qW = [r \in CommitRepos |-> "idle"]
    /\ qCmds = [r \in CommitRepos |-> <<>>]
    /\ qRes = [r \in CommitRepos |-> "none"]

CommitQuiet ==
    /\ qPc = "done"
    /\ qMsg = "fix"
    /\ qClock = 0
    /\ qChangeId = NotSet
    /\ qIds = {}
    /\ qDirty = [r \in CommitRepos |-> FALSE]
    /\ qW = [r \in CommitRepos |-> "idle"]
    /\ qCmds = [r \in CommitRepos |-> <<>>]
    /\ qRes = [r \in CommitRepos |-> "none"]

\* Time passes while the command runs.
CommitTick ==
    /\ qPc \in {"start", "running"}
    /\ qClock < MaxTicks
    /\ qClock' = qClock + 1
    /\ UNCHANGED <<qPc, qMsg, qChangeId, qIds, qDirty, qW, qCmds, qRes>>
    /\ UNCHANGED nonCommitVars

\* CommitCommand.execute, lines 281-284: the Change-ID is computed and
\* stored, then super().execute() submits the workers.
CommitExecute ==
    /\ qPc = "start"
    /\ qChangeId' = ChangeIdOf(qClock, qMsg)
    /\ qIds' = qIds \cup {ChangeIdOf(qClock, qMsg)}
    /\ qPc' = "running"
    /\ UNCHANGED <<qMsg, qClock, qDirty, qW, qCmds, qRes>>
    /\ UNCHANGED nonCommitVars

\* worker, lines 291-292, with git.is_workspace_dirty: `git status
\* --porcelain` has output when the workspace is dirty; a clean repository
\* returns {}; a failing status raises CommandError out of the worker.
CommitStatus(r, ok) ==
    /\ qPc = "running"
    /\ qW[r] = "idle"
    /\ qCmds' = [qCmds EXCEPT ![r] = Append(@, <<"status">>)]
    /\ IF ~ok
       THEN /\ qW' = [qW EXCEPT ![r] = "done"]
            /\ qRes' = [qRes EXCEPT ![r] = "raised"]
       ELSE IF ~qDirty[r]
       THEN /\ qW' = [qW EXCEPT ![r] = "done"]
            /\ qRes' = [qRes EXCEPT ![r] = "empty"]
       ELSE /\ qW' = [qW EXCEPT ![r] = "add"]
            /\ qRes' = qRes
    /\ UNCHANGED <<qPc, qMsg, qClock, qChangeId, qIds, qDirty>>
    /\ UNCHANGED nonCommitVars

\* Lines 293-295: the message is built, then `git add .`; CommandError
\* gives {"committed": False}.
CommitAdd(r, ok) ==
    /\ qW[r] = "add"
    /\ qCmds' = [qCmds EXCEPT ![r] = Append(@, <<"add", FullMessage>>)]
    /\ qIds' = qIds \cup {WorkerChangeId}
    /\ IF ok
       THEN /\ qW' = [qW EXCEPT ![r] = "commit"]
            /\ qRes' = qRes
       ELSE /\ qW' = [qW EXCEPT ![r] = "done"]
            /\ qRes' = [qRes EXCEPT ![r] = "not committed"]
    /\ UNCHANGED <<qPc, qMsg, qClock, qChangeId, qDirty>>
    /\ UNCHANGED nonCommitVars

\* Lines 296-301: `git commit -m full_message`, with the message built
\* before the add.
CommitCommit(r, ok) ==
    /\ qW[r] = "commit"
    /\ qCmds' = [qCmds EXCEPT ![r] = Append(@, <<"commit", qCmds[r][Len(qCmds[r])][2]>>)]
    /\ qW' = [qW EXCEPT ![r] = "done"]
    /\ qRes' = [qRes EXCEPT ![r] = IF ok THEN "committed" ELSE "not committed"]
    /\ UNCHANGED <<qPc, qMsg, qClock, qChangeId, qIds, qDirty>>
    /\ UNCHANGED nonCommitVars

\* Lines 284-288: super().execute() has collected every worker; the
\* Change-ID is logged and the results are returned.
CommitReturn ==
    /\ qPc = "running"
    /\ \A r \in CommitRepos : qW[r] = "done"
    /\ qPc' = "done"
    /\ UNCHANGED <<qMsg, qClock, qChangeId, qIds, qDirty, qW, qCmds, qRes>>
    /\ UNCHANGED nonCommitVars

CommitNext ==
    \/ CommitTick
    \/ CommitExecute
    \/ \E r \in CommitRepos, ok \in BOOLEAN : CommitStatus(r, ok)
    \/ \E r \in CommitRepos, ok \in BOOLEAN : CommitAdd(r, ok)
    \/ \E r \in CommitRepos, ok \in BOOLEAN : CommitCommit(r, ok)
    \/ CommitReturn
(***************************************************************************)
(* The request recorder (zhenxun/builtin_plugins/record_request.py): the   *)
(* Timer class and the handlers of friend requests and group invites.      *)
(* Time is counted in minutes.                                             *)
(***************************************************************************)
\* The requests handled in one behaviour, and the minutes that pass.
MaxRequests == 2

MaxMinutes == 6

\* 5 * 60 seconds (Timer.check, Timer.clear).
FiveMinutes == 5

RequestUsers == {"u1", "u2"}

RequestGroups == {"g1"}

\* The key of a friend request is event.user_id; of a group invite,
\* f"{event.user_id}:{event.group_id}".
FriendKey(user) == <<user>>

GroupKey(user, group) == <<user, ":", group>>

\* Timer.check(uid), line 65: True when uid is not in Timer.data, else
\* whether more than five minutes have passed since the time stored.
TimerCheck(data, now, uid) ==
    IF ~\E e \in data : e[1] = uid THEN TRUE
    ELSE \E e \in data : e[1] = uid /\ now - e[2] > FiveMinutes

\* Timer.clear(), lines 69-70: keeps the entries with v - now < 5 * 60.
TimerCleared(data, now) == {e \in data : e[2] - now < FiveMinutes}

RequestInit ==
    /\ zNow = 0
    /\ zData = {}
    /\ zRecords = {}
    /\ zNotices = {}
    /\ zIgnored = {}

RequestQuiet ==
    /\ zNow = MaxMinutes
    /\ zData = {}
    /\ zRecords = {}
    /\ zNotices = {}
    /\ zIgnored = {}

\* The requests the handlers have dealt with.
HandledSoFar == Cardinality(zRecords) + Cardinality(zIgnored)

RequestTick ==
    /\ zNow < MaxMinutes
    /\ zNow' = zNow + 1
    /\ UNCHANGED <<zData, zRecords, zNotices, zIgnored>>
    /\ UNCHANGED nonRequestVars

\* FgRequest.create and PlatformUtils.send_superuser: a new row, and a
\* notice that names it.
Recorded(key, auto) ==
    LET f == [id |-> Cardinality(zRecords) + 1, key |-> key, at |-> zNow, auto |-> auto]
    IN  /\ zRecords' = zRecords \cup {f}
        /\ zNotices' = zNotices \cup {f.id}

\* The friend request handler, lines 80-133.  Neither branch stores
\* anything in Timer.data.
FriendReq(user, auto_add_friend) ==
    /\ HandledSoFar < MaxRequests
    /\ IF TimerCheck(zData, zNow, FriendKey(user))
       THEN /\ IF auto_add_friend
               THEN UNCHANGED <<zRecords, zNotices>>
               ELSE Recorded(FriendKey(user), FALSE)
            /\ zIgnored' = IF auto_add_friend
                           THEN zIgnored \cup {<<"approved", FriendKey(user), zNow>>}
                           ELSE zIgnored
       ELSE /\ zIgnored' = zIgnored \cup {<<"ignored", FriendKey(user), zNow>>}
            /\ UNCHANGED <<zRecords, zNotices>>
    /\ UNCHANGED <<zNow, zData>>
    /\ UNCHANGED nonRequestVars

\* The group request handler, lines 136-268, for sub_type "invite": an
\* invite of a superuser, or any invite with AUTO_ADD_GROUP, is approved
\* (and recorded as approved when the user is no superuser); any other
\* invite is recorded when Timer.check allows it.  No branch stores
\* anything in Timer.data.
GroupReq(user, group, superuser, auto_add_group) ==
    /\ HandledSoFar < MaxRequests
    /\ IF superuser \/ auto_add_group
       THEN /\ IF ~superuser /\ auto_add_group
               THEN /\ Recorded(GroupKey(user, group), TRUE)
                    /\ zIgnored' = zIgnored
               ELSE /\ UNCHANGED <<zRecords, zNotices>>
                    /\ zIgnored' = zIgnored \cup {<<"approved", GroupKey(user, group), zNow>>}
       ELSE IF TimerCheck(zData, zNow, GroupKey(user, group))
       THEN /\ Recorded(GroupKey(user, group), FALSE)
            /\ zIgnored' = zIgnored
       ELSE /\ zIgnored' = zIgnored \cup {<<"ignored", GroupKey(user, group), zNow>>}
            /\ UNCHANGED <<zRecords, zNotices>>
    /\ UNCHANGED <<zNow, zData>>
    /\ UNCHANGED nonRequestVars

\* The scheduled job, lines 271-276: Timer.clear() every five minutes.
TimerClear ==
    /\ zNow >= FiveMinutes
    /\ HandledSoFar < MaxRequests
    /\ zData' = TimerCleared(zData, zNow)
    /\ UNCHANGED <<zNow, zRecords, zNotices, zIgnored>>
    /\ UNCHANGED nonRequestVars

RequestNext ==
    \/ RequestTick
    \/ \E user \in RequestUsers, auto \in BOOLEAN : FriendReq(user, auto)
    \/ \E user \in RequestUsers, group \in RequestGroups,
          superuser \in BOOLEAN, auto \in BOOLEAN :
             GroupReq(user, group, superuser, auto)
    \/ TimerClear
(***************************************************************************)
(* Specifications, one per component.                                      *)
(***************************************************************************)
RunnerBoot ==
    /\ RunnerInit /\ StateQuiet /\ LogInit
    /\ SetupQuiet /\ DepsQuiet /\ SyncQuiet /\ RunQuiet /\ PkgQuiet /\ DiscoverQuiet /\ CliQuiet /\ SettingsQuiet /\ UrlQuiet /\ RaceQuiet /\ ConcurrentQuiet /\ ListQuiet /\ CommitQuiet /\ RequestQuiet

SpecRunner == RunnerBoot /\ [][RunnerNext]_vars

StateBoot ==
    /\ RunnerQuiet /\ StateInit /\ LogInit
    /\ SetupQuiet /\ DepsQuiet /\ SyncQuiet /\ RunQuiet /\ PkgQuiet /\ DiscoverQuiet /\ CliQuiet /\ SettingsQuiet /\ UrlQuiet /\ RaceQuiet /\ ConcurrentQuiet /\ ListQuiet /\ CommitQuiet /\ RequestQuiet

SpecState == StateBoot /\ [][StateNext]_vars

LogBoot ==
    /\ RunnerQuiet /\ StateQuiet /\ LogInit
    /\ SetupQuiet /\ DepsQuiet /\ SyncQuiet /\ RunQuiet /\ PkgQuiet /\ DiscoverQuiet /\ CliQuiet /\ SettingsQuiet /\ UrlQuiet /\ RaceQuiet /\ ConcurrentQuiet /\ ListQuiet /\ CommitQuiet /\ RequestQuiet

SpecLog == LogBoot /\ [][LogNext]_vars

SetupBoot ==
    /\ RunnerQuiet /\ StateQuiet /\ LogInit
    /\ SetupInit /\ DepsQuiet /\ SyncQuiet /\ RunQuiet /\ PkgQuiet /\ DiscoverQuiet /\ CliQuiet /\ SettingsQuiet /\ UrlQuiet /\ RaceQuiet /\ ConcurrentQuiet /\ ListQuiet /\ CommitQuiet /\ RequestQuiet

SpecSetup == SetupBoot /\ [][SetupNext]_vars

DepsBoot ==
    /\ RunnerQuiet /\ StateQuiet /\ LogInit
    /\ SetupQuiet /\ DepsInit /\ SyncQuiet /\ RunQuiet /\ PkgQuiet /\ DiscoverQuiet /\ CliQuiet /\ SettingsQuiet /\ UrlQuiet /\ RaceQuiet /\ ConcurrentQuiet /\ ListQuiet /\ CommitQuiet /\ RequestQuiet

SpecDeps == DepsBoot /\ [][DepsNext]_vars

SyncBoot ==
    /\ RunnerQuiet /\ StateQuiet /\ LogInit
    /\ SetupQuiet /\ DepsQuiet /\ SyncInit /\ RunQuiet /\ PkgQuiet /\ DiscoverQuiet /\ CliQuiet /\ SettingsQuiet /\ UrlQuiet /\ RaceQuiet /\ ConcurrentQuiet /\ ListQuiet /\ CommitQuiet /\ RequestQuiet

SpecSync == SyncBoot /\ [][SyncNext]_vars

RunBoot ==
    /\ RunnerQuiet /\ StateQuiet /\ LogInit
    /\ SetupQuiet /\ DepsQuiet /\ SyncQuiet /\ RunInit /\ PkgQuiet /\ DiscoverQuiet /\ CliQuiet /\ SettingsQuiet /\ UrlQuiet /\ RaceQuiet /\ ConcurrentQuiet /\ ListQuiet /\ CommitQuiet /\ RequestQuiet

SpecRun == RunBoot /\ [][RunNext]_vars

PkgBoot ==
    /\ RunnerQuiet /\ StateQuiet /\ LogInit
    /\ SetupQuiet /\ DepsQuiet /\ SyncQuiet /\ RunQuiet /\ PkgInit /\ DiscoverQuiet /\ CliQuiet /\ SettingsQuiet /\ UrlQuiet /\ RaceQuiet /\ ConcurrentQuiet /\ ListQuiet /\ CommitQuiet /\ RequestQuiet

SpecPkg == PkgBoot /\ [][PkgNext]_vars

DiscoverBoot ==
    /\ RunnerQuiet /\ StateQuiet /\ LogInit
    /\ SetupQuiet /\ DepsQuiet /\ SyncQuiet /\ RunQuiet /\ PkgQuiet /\ DiscoverInit /\ CliQuiet /\ SettingsQuiet /\ UrlQuiet /\ RaceQuiet /\ ConcurrentQuiet /\ ListQuiet /\ CommitQuiet /\ RequestQuiet

SpecDiscover == DiscoverBoot /\ [][DiscoverNext]_vars

CliBoot ==
    /\ RunnerQuiet /\ StateQuiet /\ LogInit
    /\ SetupQuiet /\ DepsQuiet /\ SyncQuiet /\ RunQuiet /\ PkgQuiet /\ DiscoverQuiet /\ CliInit /\ SettingsQuiet /\ UrlQuiet /\ RaceQuiet /\ ConcurrentQuiet /\ ListQuiet /\ CommitQuiet /\ RequestQuiet

SpecCli == CliBoot /\ [][CliNext]_vars

SettingsBoot ==
    /\ RunnerQuiet /\ StateQuiet /\ LogInit
    /\ SetupQuiet /\ DepsQuiet /\ SyncQuiet /\ RunQuiet /\ PkgQuiet /\ DiscoverQuiet /\ CliQuiet /\ SettingsInit /\ UrlQuiet /\ RaceQuiet /\ ConcurrentQuiet /\ ListQuiet /\ CommitQuiet /\ RequestQuiet

SpecSettings == SettingsBoot /\ [][SettingsNext]_vars

UrlBoot ==
    /\ RunnerQuiet /\ StateQuiet /\ LogInit
    /\ SetupQuiet /\ DepsQuiet /\ SyncQuiet /\ RunQuiet /\ PkgQuiet /\ DiscoverQuiet /\ CliQuiet /\ SettingsQuiet /\ UrlInit /\ RaceQuiet /\ ConcurrentQuiet /\ ListQuiet /\ CommitQuiet /\ RequestQuiet

SpecUrl == UrlBoot /\ [][UrlNext]_vars

RaceBoot ==
    /\ RunnerQuiet /\ StateQuiet /\ LogInit
    /\ SetupQuiet /\ DepsQuiet /\ SyncQuiet /\ RunQuiet /\ PkgQuiet /\ DiscoverQuiet /\ CliQuiet /\ SettingsQuiet /\ UrlQuiet /\ RaceInit /\ ConcurrentQuiet /\ ListQuiet /\ CommitQuiet /\ RequestQuiet

SpecRace == RaceBoot /\ [][RaceNext]_vars

ConcurrentBoot ==
    /\ RunnerQuiet /\ StateQuiet /\ LogInit
    /\ SetupQuiet /\ DepsQuiet /\ SyncQuiet /\ RunQuiet /\ PkgQuiet /\ DiscoverQuiet /\ CliQuiet /\ SettingsQuiet /\ UrlQuiet /\ RaceQuiet /\ ConcurrentInit /\ ListQuiet /\ CommitQuiet /\ RequestQuiet

SpecConcurrent == ConcurrentBoot /\ [][ConcurrentNext]_vars

ListBoot ==
    /\ RunnerQuiet /\ StateQuiet /\ LogInit
    /\ SetupQuiet /\ DepsQuiet /\ SyncQuiet /\ RunQuiet /\ PkgQuiet /\ DiscoverQuiet /\ CliQuiet /\ SettingsQuiet /\ UrlQuiet /\ RaceQuiet /\ ConcurrentQuiet /\ ListInit /\ CommitQuiet /\ RequestQuiet

SpecList == ListBoot /\ [][ListNext]_vars

CommitBoot ==
    /\ RunnerQuiet /\ StateQuiet /\ LogInit
    /\ SetupQuiet /\ DepsQuiet /\ SyncQuiet /\ RunQuiet /\ PkgQuiet /\ DiscoverQuiet /\ CliQuiet /\ SettingsQuiet /\ UrlQuiet /\ RaceQuiet /\ ConcurrentQuiet /\ ListQuiet /\ CommitInit /\ RequestQuiet

SpecCommit == CommitBoot /\ [][CommitNext]_vars

RequestBoot ==
    /\ RunnerQuiet /\ StateQuiet /\ LogInit
    /\ SetupQuiet /\ DepsQuiet /\ SyncQuiet /\ RunQuiet /\ PkgQuiet /\ DiscoverQuiet /\ CliQuiet /\ SettingsQuiet /\ UrlQuiet /\ RaceQuiet /\ ConcurrentQuiet /\ ListQuiet /\ CommitQuiet /\ RequestInit

SpecRequest == RequestBoot /\ [][RequestNext]_vars


(***************************************************************************)
(* Properties of ConcurrentCommand.execute                                 *)
(***************************************************************************)
\* The names of the repositories whose worker returned a non-empty result.
NamesWithResult == {Name(p) : p \in {q \in target_paths : outcome[q] \in NonEmptyResults}}

C2_RaisedIsRecordedFailed ==
    pc = "returned" =>
        \A p \in target_paths :
            outcome[p] = "raised" =>
                Name(p) \in DOMAIN results /\ results[Name(p)] = "failed"

\* C3: a worker that raises or fails never aborts the batch: without an
\* interrupt execute always returns normally, and when it returns every
\* target repository's worker has been started, has run to completion and
\* has had its future collected, and the result of every repository that
\* shares its name with no other is in the mapping as its worker returned it.
C3_FailureIsIsolated ==
    /\ pc = "propagated" => exc = "KeyboardInterrupt"
    /\ (pc = "exit" /\ exc = "none") => collected = target_paths
    /\ pc = "returned" =>
          /\ collected = target_paths
          /\ \A p \in target_paths :
                /\ starts[p] = 1
                /\ outcome[p] # "none"
                /\ (outcome[p] \in NonEmptyResults
                    /\ \A q \in target_paths \ {p} : Name(q) # Name(p))
                   => results[Name(p)] = outcome[p]

\* C3 witness: execute returned normally although one worker raised and
\* another failed, and a third repository's success is in the mapping.
C3_Witness ==
    /\ pc = "returned"
    /\ \E p, q, r \in target_paths :
          /\ outcome[p] = "raised"
          /\ outcome[q] = "failed"
          /\ outcome[r] = "success"
          /\ Name(r) \in DOMAIN results
          /\ results[Name(r)] = "success"

\* C4: at most MAX_WORKERS workers run at any moment, no worker is started
\* twice, and when execute returns every target's worker was started once.
C4_BoundedPoolStartsOnce ==
    /\ Cardinality(running) <= MAX_WORKERS
    /\ \A p \in AllPaths : starts[p] <= 1
    /\ \A p \in AllPaths \ target_paths : starts[p] = 0
    /\ pc = "returned" => \A p \in target_paths : starts[p] = 1

\* C4 witness: the pool is full and a submitted worker waits in the queue.
C4_Witness ==
    /\ Cardinality(running) = MAX_WORKERS
    /\ queue # <<>>

\* C5 (as claimed): after the interrupt has reached the coordinating thread
\* no worker that had not started is started; in particular none of those
\* that were waiting in the queue behind a full pool when it arrived.
C5_NoStartAfterInterrupt == lateStarts \cap heldBack = {}

(***************************************************************************)
(* Properties of StateManager                                              *)
(***************************************************************************)
\* C6 (as claimed): when write is cut short by a crash after the temporary
\* file has been written and before the replace has completed, the state
\* file holds the complete previous state or the complete new state.
C6_CrashLeavesPreviousOrNew ==
    (/\ pcW = "crashed"
     /\ crashedAt \in {"lock_open", "lock_acquire", "replace"}
     /\ wPrev[1] = "json")
    => Held(fsState) \in {wPrev, Json(wNew)}

\* C7 (as claimed): a read that overlaps a write returns the complete state
\* persisted before the write or the complete new state, never the empty
\* state.  Stated for a read that obtained its lock, beside a writer that
\* did not crash and none of whose calls failed, the state file holding a
\* complete state when the read returns.
C7_OverlappingReadSeesPreviousOrNew ==
    (/\ pcR = "returned"
     /\ rOverlap
     /\ rHow = "loaded"
     /\ crashedAt = "none"
     /\ wEnded \in {"none", "ok"}
     /\ wExc = "none"
     /\ Held(fsState)[1] = "json"
     /\ rAllowed \subseteq {StateOf(k) : k \in 0..MaxWrites})
    => rResult \in rAllowed

\* C8 (as claimed): read never raises; with the file missing, empty,
\* unparsable, unreadable or its lock not obtained it returns the empty
\* state, and otherwise the parsed state.
C8_ReadNeverRaises ==
    /\ pcR # "raised"
    /\ (pcR = "returned" /\ wCalls = 0) =>
          rResult = IF rHow = "loaded" /\ Held(fsState)[1] = "json"
                    THEN StateOf(Held(fsState)[2]) ELSE NoState

\* C9: after a write call has ended, whether it succeeded, failed to lock,
\* failed to replace or raised, no file exists at temp_path.
C9_TempRemovedAfterWrite ==
    (pcW = "idle" /\ wEnded # "none") => fsTmp = 0

\* C9 witness: a write call whose replace failed, so that the temporary
\* file was still in place when the finally clause ran, has ended.
C9_Witness ==
    /\ pcW = "idle"
    /\ wEnded = "replacefail"
    /\ fsTmp = 0

(***************************************************************************)
(* Properties of TransactionLogger                                         *)
(***************************************************************************)
\* The positions of the file holding chunk c.
Places(c) == {i \in 1..Len(logFile) : logFile[i] = c}

\* The file is a run of complete lines, the two chunks of each next to each
\* other, followed at most by the first chunk of the line being written.
LinesWhole ==
    \A i \in 1..Len(logFile) :
        IF i % 2 = 1
        THEN /\ logFile[i][3] = 1
             /\ i = Len(logFile) => pcL[logFile[i][1]] = "write_rest"
        ELSE /\ logFile[i][3] = 2
             /\ logFile[i][1] = logFile[i - 1][1]
             /\ logFile[i][2] = logFile[i - 1][2]

\* C10: whatever the interleaving of the threads, the log file is made of
\* whole newline-terminated lines whose bytes are not interleaved, it holds
\* exactly one line for every call that succeeded and none for a call that
\* failed, and a step never alters or removes what the file already holds.
C10_OneWholeLinePerCall ==
    /\ [](/\ LinesWhole
          /\ \A c \in lOk : Cardinality(Places(<<c[1], c[2], 1>>)) = 1
                            /\ Cardinality(Places(<<c[1], c[2], 2>>)) = 1
          /\ \A c \in lFailed : Places(<<c[1], c[2], 1>>) = {}
                                /\ Places(<<c[1], c[2], 2>>) = {}
          /\ Len(logFile) <= 2 * Cardinality(lOk) + 2)
    /\ [][/\ Len(logFile') >= Len(logFile)
          /\ SubSeq(logFile', 1, Len(logFile)) = logFile]_vars

\* C10 witness: both threads had a record to write at the same time, and
\* the file holds a whole line of each of them.
C10_Witness ==
    /\ \E c, d \in lOk : c[1] # d[1]
    /\ \E t \in Threads : pcL[t] = "acquire" /\ logLock # 0 /\ logLock # t
    /\ Len(logFile) >= 4

(***************************************************************************)
(* Properties of setup_plugin_repo                                         *)
(***************************************************************************)
\* A call of setup_plugin_repo has returned.
SetupReturned == sPc = "idle" /\ sCalls > 0

\* C11: a second call with the same URL, made after a call that returned
\* success, returns ("exists", path), issues no external command and leaves
\* the local directory as it was.
C11_SecondCallReturnsExists ==
    (SetupReturned /\ sPrev = "success") =>
        /\ sResult = <<"exists", TRUE>>
        /\ sCmds = 0
        /\ <<sDir, sHead, sUpstream>> = sSnap

C11_Witness ==
    /\ SetupReturned
    /\ sPrev = "success"
    /\ sResult = <<"exists", TRUE>>
    /\ sSnap = <<"cloned", "dev", TRUE>>

\* C12: a call in which the fork, the clone or a dev-branch step failed
\* returns ("failed", None), and the local directory does not exist once it
\* has returned.
C12_FailureLeavesNoDirectory ==
    (SetupReturned /\ sRaisedAt # "none") =>
        /\ sResult = <<"failed", FALSE>>
        /\ sDir = "absent"

C12_Witness ==
    /\ SetupReturned
    /\ sRaisedAt = "push"
    /\ sResult = <<"failed", FALSE>>
    /\ sDir = "absent"

\* C13 (as claimed): when a call returns success, dev is checked out in the
\* clone and exists on the fork; it is the fork's dev branch if the fork
\* had one, and otherwise it was created from the default branch of the
\* original repository and pushed.
C13_DevFromForkOrUpstreamDefault ==
    (SetupReturned /\ sResult[1] = "success") =>
        /\ sHead = "dev"
        /\ sRemoteDev
        /\ sDevBase = IF sDevAtStart THEN "origin" ELSE sUpDefault

\* C13 (amended): when a call returns success, dev is checked out in the
\* clone and exists on the fork; it is the fork's dev branch if ls-remote
\* reported one, and otherwise it was created from upstream/<main_branch>,
\* where main_branch is what get_default_branch returned (the default
\* branch of the original repository, or "main" when the lookup failed),
\* and pushed.
C13_DevFromForkOrNamedBranch ==
    (SetupReturned /\ sResult[1] = "success") =>
        /\ sHead = "dev"
        /\ sRemoteDev
        /\ sDir = "cloned"
        /\ IF sLsSaw THEN sDevBase = "origin" /\ sDevAtStart
           ELSE /\ sDevBase = sMainBranch
                /\ sMainBranch \in {sUpDefault, "main"}
                /\ BranchInUpstream(sMainBranch)
                /\ sUpstream

C13_Witness ==
    /\ SetupReturned
    /\ sResult[1] = "success"
    /\ ~sLsSaw
    /\ ~sDevAtStart
    /\ sDevBase = sUpDefault

\* A call in which `git remote add upstream` failed and no other command
\* failed on its own has returned.
OnlyRemoteAddFailed == SetupReturned /\ sEnvFails = {"remote_add"}

\* C14 (as claimed): when registering the upstream remote is the only thing
\* that went wrong, the call returns success.
C14_UpstreamFailureNeverFatal ==
    OnlyRemoteAddFailed => sResult = <<"success", TRUE>>

\* C14 (amended): a failed registration of the upstream remote raises
\* nothing, and the call returns success when the fork already has the dev
\* branch; when it has not, the fetch from upstream that follows fails and
\* the call returns failed, with the clone removed.
C14_UpstreamFailureFatalOnlyWithoutDev ==
    OnlyRemoteAddFailed =>
        /\ sRaisedAt # "remote_add"
        /\ IF sDevAtStart
           THEN sResult = <<"success", TRUE>> /\ ~sUpstream
           ELSE /\ sResult = <<"failed", FALSE>>
                /\ sRaisedAt = "fetch"
                /\ sDir = "absent"

C14_Witness ==
    /\ OnlyRemoteAddFailed
    /\ sDevAtStart
    /\ sResult = <<"success", TRUE>>
    /\ sHead = "dev"

(***************************************************************************)
(* Properties of add_local_dependency and remove_dependency                *)
(***************************************************************************)
\* add_local_dependency has ended (returned or raised).
AddEnded == aPc \in {"caught", "done"}

\* C15: on a directory with neither pyproject.toml nor setup.py,
\* add_local_dependency raises FileNotFoundError (not CommandError) and uv is
\* never invoked; on a directory with package metadata `uv add` is invoked
\* exactly once.
C15_InvalidPackageOrOneUvAdd ==
    AddEnded =>
        IF ~aMeta[1] /\ ~aMeta[2]
        THEN aOutcome = "FileNotFoundError" /\ aUvAdds = 0
        ELSE aOutcome \in {"ok", "CommandError"} /\ aUvAdds = 1

C15_Witness ==
    /\ aPc = "done"
    /\ aMeta = <<FALSE, FALSE>>
    /\ aOutcome = "FileNotFoundError"
    /\ aUvAdds = 0
    /\ ~aListed

\* remove_dependency has returned.
RemoveReturned == dPc \in {"returned", "done"}

\* The members other than '<plugins_src_dir>/<name>', compared as written
\* (Exact) or with surrounding whitespace ignored (Trimmed).
OthersExact(ms) == SelectSeq(ms, LAMBDA m : m # <<FALSE, "plugins", "foo">>)

OthersTrimmed(ms) == SelectSeq(ms, LAMBDA m : m[2] # "plugins" \/ m[3] # "foo")

\* C16 (as claimed): every call attempts both the uv removal and the
\* workspace edit; when uv fails, the matching members are still removed,
\* and when the workspace edit fails uv has still been run.
C16_BothStepsAlwaysAttempted ==
    RemoveReturned =>
        /\ dUvRemoves = 1
        /\ dWsTried
        /\ (dUvOut # "ok" /\ ~dWsFailed) => dMembers = OthersTrimmed(dMembers0)

\* C16 (amended): every call runs `uv remove` once; the workspace edit is
\* attempted exactly when uv succeeded or answered "not found in
\* dependencies", and then a failure of the edit still leaves the result
\* True; when uv fails in any other way the call returns False and the root
\* manifest is left as it was.
C16_WorkspaceEditUnlessUvError ==
    RemoveReturned =>
        /\ dUvRemoves = 1
        /\ dWsTried <=> dUvOut \in {"ok", "notfound"}
        /\ dUvOut = "error" =>
              dResult = "False" /\ dMembers = dMembers0 /\ dWrites = 0
        /\ (dUvOut = "notfound" /\ ~dWsFailed) =>
              dMembers = OthersTrimmed(dMembers0)
        /\ dWsFailed => dResult = "True" /\ dUvOut \in {"ok", "notfound"}

C16_Witness ==
    /\ RemoveReturned
    /\ dUvOut = "ok"
    /\ dWsFailed
    /\ dResult = "True"
    /\ dMembers0 = <<EntryToRemove>>

\* C17: when uv answers that the package is not among the dependencies,
\* remove_dependency still does the workspace cleanup and returns True, and
\* the remove command goes on to update the plugin list.
C17_NotFoundIsNotFatal ==
    (RemoveReturned /\ dUvOut = "notfound") =>
        /\ dWsTried
        /\ dResult = "True"
        /\ dPc = "done" => dListUpdated

C17_Witness ==
    /\ dPc = "done"
    /\ dUvOut = "notfound"
    /\ dResult = "True"
    /\ dListUpdated
    /\ dMembers0 = <<EntryToRemove>>
    /\ dMembers = <<>>

\* C18 (as claimed): remove_dependency removes exactly the members equal to
\* '<plugins_src_dir>/<name>', keeps the others in order, and does not
\* write the manifest when no member matches.
C18_RemovesExactlyEqualEntries ==
    RemoveReturned =>
        /\ dMembers = OthersExact(dMembers0)
        /\ OthersExact(dMembers0) = dMembers0 => dWrites = 0

\* C18 (amended): when the workspace step runs (uv succeeded or answered
\* "not found") and raises nothing, remove_dependency removes exactly the
\* members that equal '<plugins_src_dir>/<name>' once surrounding
\* whitespace is trimmed, keeps the others in order, and writes the
\* manifest only when a member matched; in every other case the manifest
\* is left as it was.
C18_RemovesTrimmedEqualEntries ==
    RemoveReturned =>
        IF dWsTried /\ ~dWsFailed
        THEN /\ dMembers = OthersTrimmed(dMembers0)
             /\ dWrites = IF OthersTrimmed(dMembers0) = dMembers0 THEN 0 ELSE 1
        ELSE dMembers = dMembers0 /\ dWrites = 0

C18_Witness ==
    /\ RemoveReturned
    /\ dMembers0 = << <<FALSE, "plugins", "bar">>, <<TRUE, "plugins", "foo">>,
                      <<FALSE, "libs", "foo">> >>
    /\ dMembers = << <<FALSE, "plugins", "bar">>, <<FALSE, "libs", "foo">> >>
    /\ dWrites = 1

(***************************************************************************)
(* Properties of SyncCommand.worker                                        *)
(***************************************************************************)
\* The positions in the log at which the command `step` was issued.
Issued(step) == {i \in 1..Len(yLog) : yLog[i][1] = step}

\* The command `step` was issued and ended with exit code 0.
Succeeded(step) == \E i \in Issued(step) : yLog[i][2] = "ok"

StepBefore(step) ==
    CASE step = "fetch upstream" -> "rev-parse"
      [] step = "fetch origin" -> "fetch upstream"
      [] step = "get-url" -> "fetch origin"
      [] step = "default branch" -> "get-url"
      [] step = "rebase" -> IF yUrlParses THEN "default branch" ELSE "get-url"
      [] step = "push" -> "rebase"
      [] OTHER -> "none"

\* The step logged at position i has finished without raising: it ended
\* with exit code 0, or it is the lookup of the default branch, which
\* always hands back a branch name.
FinishedWell(i) == yLog[i][2] = "ok" \/ yLog[i][1] = "default branch"

\* C20: the steps of one repository's sync run in the order fetch upstream,
\* fetch origin, resolve default branch, rebase, push; each is issued at
\* most once and only after the step before it has finished successfully;
\* the rebase is issued only after both fetches succeeded, and the push
\* only with --push and after the rebase succeeded.
C20_StepsInOrder ==
    /\ \A i \in 1..Len(yLog) :
          /\ Issued(yLog[i][1]) = {i}
          /\ IF i = 1 THEN yLog[i][1] = "rev-parse"
             ELSE /\ yLog[i-1][1] = StepBefore(yLog[i][1])
                  /\ FinishedWell(i-1)
    /\ Issued("rebase") # {} =>
          Succeeded("fetch upstream") /\ Succeeded("fetch origin")
    /\ Issued("push") # {} => yPush /\ Succeeded("rebase")
    /\ yStatus = "success" =>
          Succeeded("rebase") /\ (yPush <=> Succeeded("push"))

C20_Witness ==
    /\ yStatus = "success"
    /\ yPush
    /\ Len(yLog) = 7
    /\ yLog[6] = <<"rebase", "ok">>
    /\ yLog[7] = <<"push", "ok">>

\* The rebase was issued and did not end with exit code 0.
RebaseFailed == \E i \in Issued("rebase") : yLog[i][2] # "ok"

\* C21: when the rebase fails, the worker returns failed, and the failed
\* rebase is the last command it issues: no rebase --abort, no rebase
\* --continue and no push follow, so a rebase that stopped stays stopped.
C21_FailedRebaseIsLeftAlone ==
    RebaseFailed =>
        /\ yPc = "done"
        /\ yStatus = "failed"
        /\ yLog[Len(yLog)][1] = "rebase"
        /\ Issued("push") = {}
        /\ yRepo \in {"clean", "rebasing"}

C21_Witness ==
    /\ RebaseFailed
    /\ yPush
    /\ yStatus = "failed"
    /\ yRepo = "rebasing"
    /\ yLog[Len(yLog)] = <<"rebase", "nonzero">>

C23_NonZeroExit ==
    (xFn = "run" /\ xOut = "nonzero") =>
        IF xCheck
        THEN /\ xResult[1] = "raise"
             /\ xResult[2] = "CommandError"
             /\ xResult[3] = "exit code"
             /\ xResult[4] = <<FALSE, IF xStderr[2] # "" THEN xStderr[2]
                                      ELSE xStdout[2]>>
        ELSE xResult = <<"return", "CompletedProcess", xStdout, xStderr>>

C23_Witness ==
    /\ xFn = "run"
    /\ xOut = "nonzero"
    /\ xCheck
    /\ xStderr = <<TRUE, "">>
    /\ xStdout = <<TRUE, "out">>
    /\ xResult = <<"raise", "CommandError", "exit code", <<FALSE, "out">> >>

PkgWritten == pPc = "compile" \/ pResult = "ok"

\* The entries of requirements.prod.in.
PkgLines == {pFile[2][i] : i \in DOMAIN pFile[2]}

\* The items of the dependency arrays (the main list when it is an array,
\* and the optional group).
PkgArrayItems ==
    {pOpt[i] : i \in DOMAIN pOpt}
        \cup (IF pForm = "array" THEN {pMain[i] : i \in DOMAIN pMain} ELSE {})

\* The local dependencies of the manifest, as <<name, text>>: the keys
\* with a path table, and the "name @ file://..." references.
PkgLocalDeps ==
    {<<StripStr(BeforeAt(d.text)), d.text>> : d \in {e \in PkgArrayItems : HasFileUrl(e.text)}}
        \cup (IF pForm = "table"
              THEN {<<pMain[i].key, pMain[i].text>> :
                      i \in {j \in DOMAIN pMain : pMain[j].kind # "String"}}
              ELSE {})

\* The plugin directories found through a workspace member whose declared
\* package name equals `name` up to underscores and hyphens.
PkgDiscovered(name) ==
    {r \in Repos :
        /\ \E i \in DOMAIN pMembers : pMembers[i] \in {"plugins/*", "plugins/foo"}
        /\ pDirs[r][1] = "dir"
        /\ pDirs[r][2] # NoString
        /\ [i \in DOMAIN pDirs[r][2] |->
               IF pDirs[r][2][i] = "_" THEN "-" ELSE pDirs[r][2][i]]
             = [i \in DOMAIN name |-> IF name[i] = "_" THEN "-" ELSE name[i]]}

\* C25: every local dependency (a path table or a file:// reference, in
\* the main dependencies or the optional group) whose name equals, up to
\* underscores and hyphens, the declared package name of a discovered
\* plugin directory is written to requirements.prod.in as exactly
\* "<name> @ git+https://github.com/<org>/<repo>.git@<branch>".
C25_LocalDependenciesRewritten ==
    PkgWritten =>
        \A d \in PkgLocalDeps :
            PkgDiscovered(d[1]) # {} =>
                \E r \in PkgDiscovered(d[1]) :
                    d[1] \o <<" @ git+https://github.com/org/", r, ".git@", pBranch>>
                        \in PkgLines

\* A piece that only a local path or a local-file reference holds.
PkgLocalPieces == {" @ file://", "@file://", "{'path': '", "/p"}

PkgIsLocal(line) == \E i \in DOMAIN line : line[i] \in PkgLocalPieces

\* C26: a local dependency that matches no discovered plugin is left out
\* of requirements.prod.in, and no entry of the file is a local path or a
\* local-file reference.
C26_NoLocalEntries ==
    PkgWritten =>
        /\ \A d \in PkgLocalDeps :
              PkgDiscovered(d[1]) = {} =>
                  \A line \in PkgLines :
                      /\ line # d[2]
                      /\ SubSeq(line, 1, Len(d[1])) = d[1] => Len(line) = Len(d[1])
        /\ \A line \in PkgLines : ~PkgIsLocal(line)

\* The ordinary dependencies: the requirement strings of the arrays that
\* name no local file.
PkgOrdinary == {d.text : d \in {e \in PkgArrayItems : ~PkgIsLocal(e.text)}}

\* C27 (as claimed): every ordinary dependency of the main list and of the
\* optional group is an entry of requirements.prod.in, as its original
\* string with only the surrounding whitespace trimmed; none is dropped.
C27_OrdinaryKeptTrimmed ==
    PkgWritten =>
        \A t \in PkgOrdinary : RStrip(LStrip(t), " ") \in PkgLines

\* C27 (amended): every ordinary dependency is an entry of
\* requirements.prod.in as its original string with the surrounding
\* whitespace trimmed and then the trailing commas removed; it is dropped
\* only when nothing is left of it; and every entry of the file that is not
\* a rewritten git reference comes from a dependency in that way.
C27_OrdinaryKeptCleaned ==
    PkgWritten =>
        /\ \A t \in PkgOrdinary :
              RStrip(RStrip(LStrip(t), " "), ",") # <<>> =>
                  RStrip(RStrip(LStrip(t), " "), ",") \in PkgLines
        /\ pForm # "table" =>
              \A line \in PkgLines :
                  \/ \E i \in DOMAIN line : line[i] = " @ git+https://github.com/org/"
                  \/ \E d \in PkgArrayItems :
                        line = RStrip(RStrip(LStrip(d.text), " "), ",")

C27_Witness ==
    /\ pResult = "ok"
    /\ <<"u", ",">> \in PkgOrdinary
    /\ <<" ", "v", " ">> \in PkgOrdinary
    /\ pFile = <<"file", <<<<"u">>, <<"v">>>>>>

\* C28: requirements.prod.in lists every distinct entry once, in ascending
\* order, and is the same file whatever the order in which the plugins
\* directory was listed.
C28_SameFileForAnyOrder ==
    PkgWritten =>
        /\ \A i, j \in DOMAIN pFile[2] : i < j => Less(pFile[2][i], pFile[2][j])
        /\ \A order \in ListingOrders :
              PkgLines = ProdDeps(pForm, pMain, pOpt,
                                  RepoNameMap(pMembers, order, pDirs), pBranch)

\* C29: when a step of create_production_package fails (the manifest
\* cannot be read or parsed, the write fails, the compile tool fails, times
\* out or is missing), requirements.prod.in does not exist when the
\* function returns.
C29_FailureLeavesNoInputFile ==
    (pPc = "done" /\ pResult = "failed") => pFile = <<"absent", <<>>>>

C29_Witness ==
    /\ pPc = "done"
    /\ pResult = "failed"
    /\ pDeps # {}
    /\ pFile = <<"absent", <<>>>>

(***************************************************************************)
(* Properties of _get_target_paths                                         *)
(***************************************************************************)
\* The entries of the plugins directory that hold a .git directory.
GitRepos == {n \in EntryNames : tEntries[n] = "repo"}

\* C30: for a given directory content and scope _get_target_paths returns
\* one list, whatever the order of the listing: the project root first
\* when it is in scope and holds a .git directory, then, when plugins are
\* in scope, the plugin directories that hold a .git directory, in
\* ascending order of name, and nothing else.
C30_RootThenPluginsByName ==
    tDone =>
        LET rootPart == IF tScope \in {"all", "root"} /\ tRootGit THEN 1 ELSE 0
            repos == IF tScope \in {"all", "plugins"} THEN GitRepos ELSE {}
        IN  /\ Len(tPaths) = rootPart + Cardinality(repos)
            /\ rootPart = 1 => tPaths[1] = <<>>
            /\ \A i \in 1..Cardinality(repos) :
                  /\ tPaths[rootPart + i][1] = "plugins"
                  /\ tPaths[rootPart + i][2] \in repos
                  /\ Cardinality({n \in repos : n < tPaths[rootPart + i][2]}) = i - 1

C30_Witness ==
    /\ tDone
    /\ tScope = "all"
    /\ tListing = <<3, 2, 1>>
    /\ tEntries = [n \in EntryNames |-> IF n = 2 THEN "gitfile" ELSE "repo"]
    /\ tPaths = <<<<>>, <<"plugins", 1>>, <<"plugins", 3>>>>

(***************************************************************************)
(* Properties of main and the singular commands                            *)
(***************************************************************************)
\* C31: when init, add or package hits an unrecoverable failure
\* (repository setup, dependency registration, lock generation or the
\* manifest pipeline failed) the process exits with code 1; it exits with
\* code 0 only when the command succeeded, and with 130 after a user
\* interrupt.
C31_FailureExitsWithOne ==
    (cPc = "exited" /\ cCmd \in {"init", "add", "package"}) =>
        /\ cCode \in {0, 1, 130}
        /\ cCode = 0 => cFailure = "none"
        /\ (cFailure # "none" /\ cCode # 130) => cCode = 1

\* C34: no command invokes the dependency-resolution tool (add, remove,
\* lock, sync, compile) before ensure_venv_exists has looked for the
\* environment directory and created it when absent; when the creation
\* fails the process exits with code 1 and runs no further command.
C34_BootstrapBeforeUv ==
    /\ ~cUnchecked
    /\ \A i \in DOMAIN cTrace : cTrace[i] \in UvTools => cVenv
    /\ cFailure = "venv" =>
          /\ cPc = "exited"
          /\ cCode = 1
          /\ cTrace = <<"uv venv">>

(***************************************************************************)
(* Properties of load_settings                                             *)
(***************************************************************************)
\* The values manage.toml gives are all acceptable.
FileIsValid ==
    /\ gFile[1] \in {"no manager", "manager"}
    /\ \A k \in {"max_workers", "command_timeout"} :
          gFile[2][k] = <<"absent">> \/ (gFile[2][k][1] = "int" /\ gFile[2][k][2] > 0)
    /\ gFile[2].dev_branch = <<"absent">> \/ gFile[2].dev_branch[1] = "str"

\* C32: load_settings never raises; with manage.toml missing, unreadable,
\* unparsable or holding an invalid value it returns the defaults
\* (max_workers 8, dev_branch "dev"), and the max_workers and
\* command_timeout it returns are always greater than 0.
C32_LoadSettingsNeverRaises ==
    gResult # <<"none">> =>
        /\ gResult[1] = "return"
        /\ gResult[2].max_workers[1] = "int" /\ gResult[2].max_workers[2] > 0
        /\ gResult[2].command_timeout[1] = "int" /\ gResult[2].command_timeout[2] > 0
        /\ ~FileIsValid =>
              /\ gResult[2].max_workers = <<"int", 8>>
              /\ gResult[2].command_timeout = <<"int", 1200>>
              /\ gResult[2].dev_branch = <<"str", "dev">>

C32_Witness ==
    /\ gFile[1] = "manager"
    /\ gFile[2].max_workers = <<"int", 0>>
    /\ gFile[2].command_timeout = <<"int", 3>>
    /\ gResult[1] = "return"
    /\ gResult[2].max_workers = <<"int", 8>>
    /\ gResult[2].command_timeout = <<"int", 1200>>

(***************************************************************************)
(* Properties of get_repo_name_from_url                                    *)
(***************************************************************************)
\* The URL names a GitHub repository: host github.com, an owner, a
\* repository, and nothing or ".git" after it.
UrlIsHosted ==
    /\ uMade.host = "github.com"
    /\ uMade.owner # <<>>
    /\ uMade.repo # <<>>
    /\ uMade.end \in {<<>>, <<".git">>}

\* C33: get_repo_name_from_url returns "owner/repo" for a GitHub URL in
\* https or ssh form, the same with and without a trailing ".git", and None
\* for any other URL; setup_plugin_repo derives from
\* https://github.com/acme/foo.git the name acme/foo, the plugin name foo
\* and the path <plugins>/foo, and for a URL that does not parse it returns
\* failed without running a command.
C33_OwnerRepoFromUrl ==
    /\ uFn = "get_repo_name_from_url" =>
          uResult = IF UrlIsHosted
                    THEN uMade.owner \o <<"/">> \o uMade.repo
                    ELSE <<"None">>
    /\ uFn = "setup_plugin_repo" =>
          /\ uUrl = <<"https://", "github.com", "/", "acme", "/", "foo", ".git">> =>
                /\ uResult.repo_name = <<"acme", "/", "foo">>
                /\ uResult.plugin_name = <<"foo">>
                /\ uResult.status # "failed" => uResult.path = <<"plugins", <<"foo">>>>
          /\ ~UrlIsHosted =>
                /\ uResult.status = "failed"
                /\ uResult.path = <<"None">>
                /\ uResult.commands = 0

C33_Witness ==
    /\ uFn = "get_repo_name_from_url"
    /\ uUrl = <<"git@", "github.com", ":", "acme", "/", "foo", ".git">>
    /\ uResult = <<"acme", "/", "foo">>

(***************************************************************************)
(* Properties of the concurrent repository setup of init                   *)
(***************************************************************************)
\* C35: concurrent setup_plugin_repo calls do not interfere through the
\* filesystem: the cleanup of one call never removes a directory another
\* call cloned, and once all calls have returned every path returned with
\* success or exists is still there.
C35_CollectedPathsExist ==
    /\ kLost = {}
    /\ (\A w \in SetupWorkers : kPc[w] = "done") =>
          \A w \in SetupWorkers :
              kStatus[w] \in {"success", "exists"} => kDir[kPath[w]] # "absent"

(***************************************************************************)
(* Properties of concurrent StateManager.write calls                       *)
(***************************************************************************)
\* C36: when two write calls on one path run concurrently, each persists
\* its state completely or fails leaving the file as it was, so that in the
\* end the file holds one of the two written states in full (or the old
\* state when both failed), and neither call's temporary file is emptied,
\* overwritten, moved or deleted by the other call before its own replace.
C36_ConcurrentWritesAtomic ==
    /\ vDisturbed = {}
    /\ (\A w \in Writers : vPc[w] = "done") =>
          IF \E w \in Writers : vEnded[w] = "ok"
          THEN \E w \in Writers : vEnded[w] = "ok" /\ vData[vMain] = <<"full", w>>
          ELSE vData[vMain] = <<"old", 0>>

(***************************************************************************)
(* Properties of the plugin list file                                      *)
(***************************************************************************)
\* The lines of a list that InitCommand reads as this URL: a line that is
\* the URL once its surrounding whitespace is trimmed.
EntriesOf(lines, url) == {i \in DOMAIN lines : StripStr(lines[i]) = url}

\* C37: the add command appends the URL to the plugin list file only after
\* repository setup and dependency registration both succeeded; when either
\* failed the file is as it was; and adding a URL that is listed already
\* does not create a second entry for it.
C37_AddListsUrlOnce ==
    (mPc = "done" /\ mCmd[1] = "add") =>
        /\ (mCmd[3] = "failed" \/ mCmd[4] # "ok") =>
              (mLines = mLines0 /\ mExists = mExists0 /\ mWrites = 0)
        /\ EntriesOf(mLines0, mCmd[2]) # {} =>
              Cardinality(EntriesOf(mLines, mCmd[2])) =
                  Cardinality(EntriesOf(mLines0, mCmd[2]))

\* Whether a line is a URL entry whose repository name is the plugin name,
\* with or without ".git", in any case: not a comment, and its last pieces
\* are "/" and the name.
IsEntryNamed(line, plugin_name) ==
    LET l == StripStr(line)
        last == IF l # <<>> /\ l[Len(l)] = ".git" THEN SubSeq(l, 1, Len(l) - 1) ELSE l
        same(a, b) == a = b \/ {a, b} = {"foo", "FOO"}
    IN  /\ Len(last) >= 2
        /\ Head(l) # "#"
        /\ last[Len(last) - 1] = "/"
        /\ same(last[Len(last)], plugin_name)

\* C38: update_plugins_list with action remove and plugin name N deletes
\* exactly the URL entries whose repository name is N and leaves every
\* other line of the file, comment lines included, unchanged and in its
\* original order (a file left without lines is the text of one line end).
C38_RemoveKeepsOtherLines ==
    (mPc = "done" /\ mCmd[1] = "remove" /\ mCmd[3] /\ mExists0) =>
        LET others == SelectSeq(mLines0, LAMBDA line : ~IsEntryNamed(line, mCmd[2]))
        IN  \/ mLines = others
            \/ others = <<>> /\ mLines = <<Blank>>

(***************************************************************************)
(* Properties of CommitCommand                                             *)
(***************************************************************************)
\* The commit commands the workers have run.
CommitsMade == {c \in UNION {{qCmds[r][i] : i \in DOMAIN qCmds[r]} : r \in CommitRepos} :
                   c[1] = "commit"}

\* C39 as stated: in one commit invocation every repository with
\* uncommitted changes is committed with the same message and Change-ID,
\* and a clean repository receives no add or commit.
C39_EveryDirtyRepoCommitted ==
    qPc = "done" =>
        \A r \in CommitRepos :
            IF qDirty[r]
            THEN qRes[r] = "committed"
            ELSE \A i \in DOMAIN qCmds[r] : qCmds[r][i][1] = "status"

\* C39, amended: the Change-ID is computed once, before any worker starts;
\* every add is followed by at most one commit, every commit carries the
\* invocation's message and that one Change-ID; a repository found dirty
\* is committed unless its add or its commit fails; a repository whose
\* status is clean or fails receives no add or commit.
C39_OneChangeIdForAllCommits ==
    /\ (\E r \in CommitRepos : qW[r] # "idle") =>
          (qChangeId # <<>> /\ qIds = {qChangeId})
    /\ Cardinality(qIds) <= 1
    /\ \A c \in CommitsMade : c[2] = <<qMsg, "Change-ID", qChangeId>>
    /\ \A r \in CommitRepos :
          /\ qRes[r] = "committed" =>
                /\ qDirty[r]
                /\ [i \in DOMAIN qCmds[r] |-> qCmds[r][i][1]] = <<"status", "add", "commit">>
          /\ (qW[r] = "done" /\ qRes[r] \in {"empty", "raised"}) =>
                [i \in DOMAIN qCmds[r] |-> qCmds[r][i][1]] = <<"status">>
          /\ (qW[r] = "done" /\ qDirty[r] /\ qRes[r] = "not committed") =>
                [i \in DOMAIN qCmds[r] |-> qCmds[r][i][1]]
                    \in {<<"status", "add">>, <<"status", "add", "commit">>}

\* Both repositories were dirty and were committed, and the command
\* returned at a later time than the one the Change-ID was computed at.
C39_Witness ==
    /\ qPc = "done"
    /\ \A r \in CommitRepos : qDirty[r] /\ qRes[r] = "committed"
    /\ qChangeId = <<"I", 0, qMsg>>
    /\ qClock = 2

(***************************************************************************)
(* Properties of the request recorder                                      *)
(***************************************************************************)
\* C40: a friend request, or a group invite that is not approved
\* automatically, arriving within five minutes of a recorded request with
\* the same key is ignored: no second record is created for it and the
\* superusers are not told again.
C40_RepeatWithinFiveMinutesIgnored ==
    \A f1 \in zRecords, f2 \in zRecords :
        (f1.id < f2.id /\ f1.key = f2.key /\ ~f1.auto /\ ~f2.auto) =>
            f2.at - f1.at > 5

====
